---- MODULE Spec2Model ----
(***************************************************************************)
(* envkeep: env-file snapshot parser, typed validation, diff and report    *)
(* accumulators.  Text is modelled as sequences of one-character strings,  *)
(* a file as the sequence of its lines (the result of str.splitlines).     *)
(***************************************************************************)
EXTENDS Naturals, Integers, Sequences, FiniteSets, TLC

VARIABLES
    text,        \* the lines of the env-file text handed to the parser
    envspec,     \* EnvSpec.variables: the declared VariableSpec records, in order
    left,        \* an EnvSnapshot (the one validated; the left side of a diff)
    right,       \* an EnvSnapshot (the right side of a diff)
    allow_extra, \* the allow_extra argument of the last validate call
    report,      \* a ValidationReport
    diff_report, \* the outcome of the last diff call
    data,        \* the argument of the last constructor, validate or projection call
    outcome,     \* what that call returned or raised
    pc           \* which operation has run

vars == <<text, envspec, left, right, allow_extra, report, diff_report, data,
          outcome, pc>>

(***************************************************************************)
(* Bounds of the model.                                                    *)
(***************************************************************************)
MaxLines == 4      \* lines of an env-file text
MaxIssues == 4     \* issues accumulated in one ValidationReport
MaxValueLen == 5   \* characters after the `=` of a single assignment line

(***************************************************************************)
(* Characters.                                                             *)
(***************************************************************************)
BOM == "BOM"                       \* stands for the one character U+FEFF
Whitespace == {" ", "\t"}
DigitSeq == <<"0", "1", "2", "3", "4", "5", "6", "7", "8", "9">>
LowerSeq == <<"a", "b", "c", "d", "e", "f", "g", "h", "i", "j", "k", "l", "m",
              "n", "o", "p", "q", "r", "s", "t", "u", "v", "w", "x", "y", "z">>
UpperSeq == <<"A", "B", "C", "D", "E", "F", "G", "H", "I", "J", "K", "L", "M",
              "N", "O", "P", "Q", "R", "S", "T", "U", "V", "W", "X", "Y", "Z">>
Range(f) == {f[i] : i \in DOMAIN f}
IndexOf(f, c) == CHOOSE i \in DOMAIN f : f[i] = c
Digits == Range(DigitSeq)
Lower == Range(LowerSeq)
Upper == Range(UpperSeq)
IdentStart == Lower \cup Upper \cup {"_"}
IdentChars == IdentStart \cup Digits

None == <<>>
Some(v) == <<v>>

RECURSIVE lstrip(_)
lstrip(s) ==
    IF s # <<>> /\ Head(s) \in Whitespace THEN lstrip(Tail(s)) ELSE s

RECURSIVE rstrip(_)
rstrip(s) ==
    IF s # <<>> /\ s[Len(s)] \in Whitespace
    THEN rstrip(SubSeq(s, 1, Len(s) - 1))
    ELSE s

strip(s) == rstrip(lstrip(s))

RECURSIVE rstrip_newline(_)
rstrip_newline(s) ==
    IF s # <<>> /\ s[Len(s)] = "\n"
    THEN rstrip_newline(SubSeq(s, 1, Len(s) - 1))
    ELSE s

startswith(s, prefix) ==
    Len(s) >= Len(prefix) /\ SubSeq(s, 1, Len(prefix)) = prefix

strip_bom(lines) ==
    IF lines # <<>> /\ startswith(lines[1], <<BOM>>)
    THEN <<Tail(lines[1])>> \o Tail(lines)
    ELSE lines

(***************************************************************************)
(* snapshot.py: the line parser.                                           *)
(***************************************************************************)
_UNESCAPE_MAP ==
    [c \in {"n", "r", "t", "\"", "'", "\\", "#"} |->
        CASE c = "n" -> "\n"
          [] c = "r" -> "\r"
          [] c = "t" -> "\t"
          [] OTHER -> c]

RECURSIVE unescape_from(_, _, _)
unescape_from(value, idx, result) ==
    IF idx > Len(value) THEN result
    ELSE IF value[idx] # "\\" THEN unescape_from(value, idx + 1, Append(result, value[idx]))
    ELSE IF idx + 1 > Len(value) THEN Append(result, "\\")
    ELSE IF value[idx + 1] \in DOMAIN _UNESCAPE_MAP
         THEN unescape_from(value, idx + 2, Append(result, _UNESCAPE_MAP[value[idx + 1]]))
         ELSE unescape_from(value, idx + 2, result \o <<"\\", value[idx + 1]>>)

_unescape(value) == unescape_from(value, 1, <<>>)

RECURSIVE strip_comment_from(_, _, _, _, _)
strip_comment_from(value, idx, in_single, in_double, escaped) ==
    IF idx > Len(value) THEN rstrip(value)
    ELSE IF escaped THEN strip_comment_from(value, idx + 1, in_single, in_double, FALSE)
    ELSE IF value[idx] = "\\" THEN strip_comment_from(value, idx + 1, in_single, in_double, TRUE)
    ELSE IF value[idx] = "'" /\ ~in_double
         THEN strip_comment_from(value, idx + 1, ~in_single, in_double, FALSE)
    ELSE IF value[idx] = "\"" /\ ~in_single
         THEN strip_comment_from(value, idx + 1, in_single, ~in_double, FALSE)
    ELSE IF value[idx] = "#" /\ ~in_single /\ ~in_double
         THEN rstrip(SubSeq(value, 1, idx - 1))
    ELSE strip_comment_from(value, idx + 1, in_single, in_double, FALSE)

\* the comment stripper were it to track no quotes
RECURSIVE strip_comment_quotes_untracked(_, _, _)
strip_comment_quotes_untracked(value, idx, escaped) ==
    IF idx > Len(value) THEN rstrip(value)
    ELSE IF escaped THEN strip_comment_quotes_untracked(value, idx + 1, FALSE)
    ELSE IF value[idx] = "\\" THEN strip_comment_quotes_untracked(value, idx + 1, TRUE)
    ELSE IF value[idx] = "#" THEN rstrip(SubSeq(value, 1, idx - 1))
    ELSE strip_comment_quotes_untracked(value, idx + 1, FALSE)

_strip_inline_comment_quotes_untracked(value) ==
    strip_comment_quotes_untracked(value, 1, FALSE)

_strip_inline_comment(value) == strip_comment_from(value, 1, FALSE, FALSE, FALSE)

RECURSIVE scan_quoted(_, _, _, _)
scan_quoted(trimmed, quote, idx, buffer) ==
    IF idx > Len(trimmed) THEN [closed |-> FALSE, idx |-> idx, buffer |-> buffer]
    ELSE IF trimmed[idx] = "\\"
         THEN IF idx + 1 <= Len(trimmed)
              THEN scan_quoted(trimmed, quote, idx + 2,
                               buffer \o SubSeq(trimmed, idx, idx + 1))
              ELSE scan_quoted(trimmed, quote, idx + 1, Append(buffer, "\\"))
    ELSE IF trimmed[idx] = quote
         THEN [closed |-> TRUE, idx |-> idx + 1, buffer |-> buffer]
    ELSE scan_quoted(trimmed, quote, idx + 1, Append(buffer, trimmed[idx]))

\* Some(text) for an accepted value, None for a quoted value that is never closed.
_sanitize_value(value) ==
    LET trimmed == strip(value) IN
    IF trimmed = <<>> THEN Some(<<>>)
    ELSE IF trimmed[1] \in {"\"", "'"}
    THEN LET scan == scan_quoted(trimmed, trimmed[1], 2, <<>>)
             remainder == strip(SubSeq(trimmed, scan.idx, Len(trimmed)))
             rest == _strip_inline_comment(remainder)
         IN  IF ~scan.closed THEN None
             ELSE IF remainder # <<>> /\ remainder[1] # "#" /\ rest # <<>>
                  THEN Some(scan.buffer \o <<" ">> \o rest)
                  ELSE Some(scan.buffer)
    ELSE Some(_strip_inline_comment(trimmed))

RECURSIVE ident_len(_, _)
ident_len(s, n) ==
    IF n < Len(s) /\ s[n + 1] \in (IF n = 0 THEN IdentStart ELSE IdentChars)
    THEN ident_len(s, n + 1)
    ELSE n

\* (?P<key>[A-Za-z_][A-Za-z0-9_]*)\s*=\s*(?P<value>.*)$ matched at the start of s
match_key_value(s) ==
    LET k == ident_len(s, 0)
        after == lstrip(SubSeq(s, k + 1, Len(s)))
    IN  IF k = 0 \/ after = <<>> \/ Head(after) # "="
        THEN None
        ELSE Some([key |-> SubSeq(s, 1, k), value |-> lstrip(Tail(after))])

\* ^(?:export\s+)?(?P<key>...)\s*=\s*(?P<value>.*)$ : the optional group is
\* tried first, and given up when the rest does not match after it.
_ENV_LINE_RE(s) ==
    LET word == <<"e", "x", "p", "o", "r", "t">>
        after == SubSeq(s, Len(word) + 1, Len(s))
        exported == IF startswith(s, word) /\ after # <<>> /\ Head(after) \in Whitespace
                    THEN match_key_value(lstrip(after))
                    ELSE None
    IN  IF exported # None THEN exported ELSE match_key_value(s)

\* the line parser were it to run the unescape pass twice
_parse_line_unescaped_twice(line) ==
    LET stripped == strip(line)
        match == _ENV_LINE_RE(stripped)
        processed == _sanitize_value(match[1].value)
    IN  IF stripped = <<>> \/ stripped[1] = "#" THEN None
        ELSE IF match = None THEN None
        ELSE IF processed = None THEN None
        ELSE Some([key |-> match[1].key,
                   value |-> _unescape(_unescape(processed[1]))])

_parse_line(line) ==
    LET stripped == strip(line)
        match == _ENV_LINE_RE(stripped)
        processed == _sanitize_value(match[1].value)
    IN  IF stripped = <<>> \/ stripped[1] = "#" THEN None
        ELSE IF match = None THEN None
        ELSE IF processed = None THEN None
        ELSE Some([key |-> match[1].key, value |-> _unescape(processed[1])])

(***************************************************************************)
(* snapshot.py: EnvSnapshot and _parse_env.                                *)
(***************************************************************************)
EnvSnapshot(values, duplicates, invalid_lines) ==
    [values |-> values, duplicates |-> duplicates, invalid_lines |-> invalid_lines]

EmptyMap == [k \in {} |-> <<>>]

dict_set(d, key, value) ==
    [k \in DOMAIN d \cup {key} |-> IF k = key THEN value ELSE d[k]]

\* the loop body were the first assignment of a key to win over later ones
parse_env_line_first_wins(snap, index, line) ==
    LET parsed == _parse_line(line) IN
    IF parsed = None
    THEN IF strip(line) # <<>> /\ strip(line)[1] # "#"
         THEN [snap EXCEPT !.invalid_lines = Append(@, <<index, rstrip_newline(line)>>)]
         ELSE snap
    ELSE IF parsed[1].key \in DOMAIN snap.values
    THEN [snap EXCEPT !.duplicates = Append(@, parsed[1].key)]
    ELSE [snap EXCEPT !.values = dict_set(@, parsed[1].key, parsed[1].value)]

\* the loop body were it to record the stripped line
parse_env_line_stripped(snap, index, line) ==
    LET parsed == _parse_line(line) IN
    IF parsed = None
    THEN IF strip(line) # <<>> /\ strip(line)[1] # "#"
         THEN [snap EXCEPT !.invalid_lines = Append(@, <<index, strip(line)>>)]
         ELSE snap
    ELSE [snap EXCEPT
            !.duplicates = IF parsed[1].key \in DOMAIN snap.values
                           THEN Append(@, parsed[1].key) ELSE @,
            !.values = dict_set(@, parsed[1].key, parsed[1].value)]

\* one iteration of the loop of _parse_env, on line number index
parse_env_line(snap, index, line) ==
    LET parsed == _parse_line(line) IN
    IF parsed = None
    THEN IF strip(line) # <<>> /\ strip(line)[1] # "#"
         THEN [snap EXCEPT !.invalid_lines = Append(@, <<index, rstrip_newline(line)>>)]
         ELSE snap
    ELSE [snap EXCEPT
            !.duplicates = IF parsed[1].key \in DOMAIN snap.values
                           THEN Append(@, parsed[1].key) ELSE @,
            !.values = dict_set(@, parsed[1].key, parsed[1].value)]

RECURSIVE parse_env_from(_, _, _)
parse_env_from(lines, index, snap) ==
    IF index > Len(lines) THEN snap
    ELSE parse_env_from(lines, index + 1, parse_env_line(snap, index, lines[index]))

_parse_env(raw) ==
    parse_env_from(strip_bom(raw), 1, EnvSnapshot(EmptyMap, <<>>, <<>>))

from_text(raw) == _parse_env(raw)

RECURSIVE dedup_from(_, _, _)
dedup_from(keys, idx, ordered) ==
    IF idx > Len(keys) THEN ordered
    ELSE IF \E j \in 1..Len(ordered) : ordered[j] = keys[idx]
         THEN dedup_from(keys, idx + 1, ordered)
         ELSE dedup_from(keys, idx + 1, Append(ordered, keys[idx]))

duplicate_keys(snap) == dedup_from(snap.duplicates, 1, <<>>)

malformed_lines(snap) == snap.invalid_lines

(***************************************************************************)
(* Python string and integer helpers.                                      *)
(***************************************************************************)
ord(c) ==
    IF c \in Digits THEN 47 + IndexOf(DigitSeq, c)
    ELSE IF c \in Upper THEN 64 + IndexOf(UpperSeq, c)
    ELSE IF c \in Lower THEN 96 + IndexOf(LowerSeq, c)
    ELSE IF c = "_" THEN 95
    ELSE IF c = " " THEN 32
    ELSE IF c = "," THEN 44
    ELSE IF c = "-" THEN 45
    ELSE IF c = "+" THEN 43
    ELSE 127

lower_char(c) == IF c \in Upper THEN LowerSeq[IndexOf(UpperSeq, c)] ELSE c

\* str.lower / str.casefold on ASCII text
lower(s) == [i \in 1..Len(s) |-> lower_char(s[i])]
casefold(s) == lower(s)

RECURSIVE str_less(_, _)
str_less(a, b) ==
    IF a = <<>> THEN b # <<>>
    ELSE IF b = <<>> THEN FALSE
    ELSE IF ord(a[1]) # ord(b[1]) THEN ord(a[1]) < ord(b[1])
    ELSE str_less(Tail(a), Tail(b))

RECURSIVE nat_str(_)
nat_str(n) ==
    IF n < 10 THEN <<DigitSeq[n + 1]>>
    ELSE Append(nat_str(n \div 10), DigitSeq[(n % 10) + 1])

\* str(n) of an int
int_str(n) == IF n < 0 THEN <<"-">> \o nat_str(0 - n) ELSE nat_str(n)

RECURSIVE digits_value(_, _)
digits_value(s, acc) ==
    IF s = <<>> THEN acc
    ELSE IF s[1] = "_" THEN digits_value(Tail(s), acc)
    ELSE digits_value(Tail(s), 10 * acc + (IndexOf(DigitSeq, s[1]) - 1))

\* int(raw, 10): an optional sign, then digits with single underscores between
\* them; None when raw is no such literal.
parse_int(raw) ==
    LET s == strip(raw)
        signed == s # <<>> /\ s[1] \in {"+", "-"}
        body == IF signed THEN Tail(s) ELSE s
        wellformed ==
            /\ body # <<>>
            /\ \A i \in 1..Len(body) : body[i] \in Digits \cup {"_"}
            /\ body[1] # "_" /\ body[Len(body)] # "_"
            /\ \A i \in 1..(Len(body) - 1) : ~(body[i] = "_" /\ body[i + 1] = "_")
    IN  IF ~wellformed THEN None
        ELSE Some(IF signed /\ s[1] = "-"
                  THEN 0 - digits_value(body, 0)
                  ELSE digits_value(body, 0))

(***************************************************************************)
(* spec.py: VariableType.  A result is [ok, value] or [ok, message]: the   *)
(* returned canonical text, or the message of the ValueError raised.       *)
(***************************************************************************)
Ok(v) == [ok |-> TRUE, value |-> v]
Raise(msg) == [ok |-> FALSE, message |-> msg]

_BOOL_TRUE == {<<"1">>, <<"t", "r", "u", "e">>, <<"o", "n">>, <<"y", "e", "s">>}
_BOOL_FALSE == {<<"0">>, <<"f", "a", "l", "s", "e">>, <<"o", "f", "f">>, <<"n", "o">>}

_normalize_string(raw) == Ok(raw)

\* str(int(raw, 10)), parsed being int(raw, 10)
int_result(raw, parsed) ==
    IF parsed = None
    THEN Raise(<<"invalid literal for int() with base 10: ", raw>>)
    ELSE Ok(int_str(parsed[1]))

_normalize_int(raw) == int_result(raw, parse_int(raw))

bool_result(lowered) ==
    IF lowered \in _BOOL_TRUE THEN Ok(<<"t", "r", "u", "e">>)
    ELSE IF lowered \in _BOOL_FALSE THEN Ok(<<"f", "a", "l", "s", "e">>)
    ELSE Raise(<<"invalid boolean value">>)

_normalize_bool(raw) == bool_result(lower(raw))

kept_item(stripped) == IF stripped # <<>> THEN <<stripped>> ELSE <<>>

\* raw.split(","), each item stripped, the empty ones dropped
RECURSIVE split_items(_, _, _)
split_items(raw, idx, item) ==
    IF idx > Len(raw) THEN kept_item(strip(item))
    ELSE IF raw[idx] = "," THEN kept_item(strip(item)) \o split_items(raw, idx + 1, <<>>)
    ELSE split_items(raw, idx + 1, Append(item, raw[idx]))

RECURSIVE join(_, _)
join(sep, items) ==
    IF items = <<>> THEN <<>>
    ELSE IF Len(items) = 1 THEN items[1]
    ELSE items[1] \o sep \o join(sep, Tail(items))

_normalize_list(raw) == Ok(join(<<",">>, split_items(raw, 1, <<>>)))

\* the leading separators of a path
RECURSIVE lstrip_sep(_)
lstrip_sep(part) ==
    IF part # <<>> /\ Head(part) = "/" THEN lstrip_sep(Tail(part)) ELSE part

\* pathlib's splitroot: two leading separators are kept as they are, one or
\* more than two are one
splitroot(part) ==
    IF part # <<>> /\ Head(part) = "/"
    THEN [root |-> IF Len(part) - Len(lstrip_sep(part)) = 2 THEN <<"/", "/">> ELSE <<"/">>,
          rel |-> lstrip_sep(part)]
    ELSE [root |-> <<>>, rel |-> part]

kept_part(x) == IF x # <<>> /\ x # <<".">> THEN <<x>> ELSE <<>>

\* rel.split(sep) without the empty and the `.` components
RECURSIVE parse_parts(_, _, _)
parse_parts(rel, idx, part) ==
    IF idx > Len(rel) THEN kept_part(part)
    ELSE IF rel[idx] = "/" THEN kept_part(part) \o parse_parts(rel, idx + 1, <<>>)
    ELSE parse_parts(rel, idx + 1, Append(part, rel[idx]))

\* str(PurePosixPath(raw)): the root and the joined parts, or `.` for neither
path_str(root, parts) ==
    IF root = <<>> /\ parts = <<>> THEN <<".">> ELSE root \o join(<<"/">>, parts)

\* str(Path(raw).as_posix())
_normalize_path(raw) ==
    Ok(path_str(splitroot(raw).root, parse_parts(splitroot(raw).rel, 1, <<>>)))

VariableType == {"string", "int", "bool", "list", "path"}

normalizer(var_type, raw) ==
    CASE var_type = "string" -> _normalize_string(raw)
      [] var_type = "int" -> _normalize_int(raw)
      [] var_type = "bool" -> _normalize_bool(raw)
      [] var_type = "list" -> _normalize_list(raw)
      [] var_type = "path" -> _normalize_path(raw)

\* VariableType.normalize
normalize(var_type, value) == normalizer(var_type, strip(value))

(***************************************************************************)
(* spec.py: VariableSpec.  A compiled pattern is named by its source text; *)
(* a custom validator is the set of canonical values on which it raises.   *)
(***************************************************************************)
VariableSpec(name, var_type, required, default, secret) ==
    [name |-> name, var_type |-> var_type, required |-> required,
     default |-> default, secret |-> secret, choices |-> <<>>,
     pattern |-> None, allow_empty |-> FALSE,
     min_length |-> None, max_length |-> None,
     min_value |-> None, max_value |-> None, validators |-> <<>>]

\* re.fullmatch of the patterns the model declares
fullmatch(pattern, s) ==
    CASE pattern = "[0-9]+" -> s # <<>> /\ \A i \in 1..Len(s) : s[i] \in Digits
      [] pattern = "[a-z]*" -> \A i \in 1..Len(s) : s[i] \in Lower

_validate_not_empty(spec, value) ==
    IF value = <<>> /\ ~spec.allow_empty
    THEN Raise(<<"value may not be empty">>)
    ELSE Ok(value)

_validate_choices(spec, normalized) ==
    IF spec.choices # <<>> /\ normalized \notin Range(spec.choices)
    THEN Raise(<<"value must be one of ", spec.choices>>)
    ELSE Ok(normalized)

_validate_pattern(spec, normalized) ==
    IF spec.pattern # None /\ ~fullmatch(spec.pattern[1], normalized)
    THEN Raise(<<"value does not match pattern">>)
    ELSE Ok(normalized)

_validate_length(spec, normalized) ==
    IF spec.min_length # None /\ Len(normalized) < spec.min_length[1]
    THEN Raise(<<"length must be at least ", spec.min_length[1]>>)
    ELSE IF spec.max_length # None /\ Len(normalized) > spec.max_length[1]
    THEN Raise(<<"length must be at most ", spec.max_length[1]>>)
    ELSE Ok(normalized)

\* number being float(normalized)
value_range_result(spec, normalized, number) ==
    IF spec.min_value # None /\ spec.var_type \in {"int", "float"}
       /\ number[1] < spec.min_value[1]
    THEN Raise(<<"value must be at least ", spec.min_value[1]>>)
    ELSE IF spec.max_value # None /\ spec.var_type \in {"int", "float"}
            /\ number[1] > spec.max_value[1]
    THEN Raise(<<"value must be at most ", spec.max_value[1]>>)
    ELSE Ok(normalized)

_validate_value_range(spec, normalized) ==
    value_range_result(spec, normalized, parse_int(normalized))

RECURSIVE run_validators(_, _, _)
run_validators(validators, idx, normalized) ==
    IF idx > Len(validators) THEN Ok(normalized)
    ELSE IF normalized \in validators[idx].rejects
    THEN Raise(<<"custom validation failed: ", validators[idx].message>>)
    ELSE run_validators(validators, idx + 1, normalized)

\* a statement that may raise, followed by the statements after it
then_check(first, rest) == IF ~first.ok THEN first ELSE rest

validated_type(spec, normalized) ==
    IF ~normalized.ok THEN normalized
    ELSE run_validators(spec.validators, 1, normalized.value)

_validate_type(spec, value) ==
    validated_type(spec, normalize(spec.var_type, value))

\* the checks on the canonical value were the pattern matched before the
\* choices are looked up
checks_after_type_pattern_first(spec, normalized) ==
    then_check(_validate_pattern(spec, normalized),
    then_check(_validate_choices(spec, normalized),
    then_check(_validate_length(spec, normalized),
               _validate_value_range(spec, normalized))))

\* the checks of VariableSpec.validate on the canonical value
checks_after_type(spec, normalized) ==
    then_check(_validate_choices(spec, normalized),
    then_check(_validate_pattern(spec, normalized),
    then_check(_validate_length(spec, normalized),
               _validate_value_range(spec, normalized))))

typed_then_checked(spec, typed) ==
    IF ~typed.ok THEN typed ELSE checks_after_type(spec, typed.value)

\* VariableSpec.validate: the first failing check raises
VariableSpec_validate(spec, value) ==
    then_check(_validate_not_empty(spec, value),
               typed_then_checked(spec, _validate_type(spec, value)))

VariableSpec_normalize(spec, value) == VariableSpec_validate(spec, value)

\* the cls(...) call of VariableSpec.from_dict; a key the dict lacks is None
from_dict_instance(d) ==
    [name |-> d.name, var_type |-> d.type, required |-> d.required,
     default |-> d.default, secret |-> d.secret, choices |-> d.choices,
     pattern |-> IF d.pattern # None /\ d.pattern[1] # "" THEN d.pattern ELSE None,
     allow_empty |-> d.allow_empty,
     min_length |-> d.min_length, max_length |-> d.max_length,
     min_value |-> d.min_value, max_value |-> d.max_value,
     validators |-> d.validators]

\* the end of from_dict: instance.validate(default), then return instance
validated_default(instance, checked) ==
    IF ~checked.ok THEN checked ELSE Ok(instance)

\* from_dict were it to return the instance without validating its default
VariableSpec_from_dict_default_unchecked(d) == Ok(from_dict_instance(d))

\* VariableSpec.from_dict
VariableSpec_from_dict(d) ==
    IF d.default = None THEN Ok(from_dict_instance(d))
    ELSE validated_default(from_dict_instance(d),
            VariableSpec_validate(from_dict_instance(d), d.default[1]))

(***************************************************************************)
(* report.py: ValidationIssue and ValidationReport.  A Counter or dict is  *)
(* a function whose domain is the keys it holds.                           *)
(***************************************************************************)
ERROR == "error"
WARNING == "warning"
INFO == "info"
IssueSeverity == {ERROR, WARNING, INFO}

ValidationIssue(variable, message, severity, code, hint) ==
    [variable |-> variable, message |-> message, severity |-> severity,
     code |-> code, hint |-> hint]

counter_get(counter, key) == IF key \in DOMAIN counter THEN counter[key] ELSE 0

counter_inc(counter, key) ==
    [k \in DOMAIN counter \cup {key} |->
        IF k = key THEN counter_get(counter, key) + 1 ELSE counter[k]]

bucket_append(buckets, key, item) ==
    [k \in DOMAIN buckets \cup {key} |->
        IF k = key
        THEN (IF key \in DOMAIN buckets THEN buckets[key] ELSE <<>>) \o <<item>>
        ELSE buckets[k]]

\* ValidationReport() with no issue: __post_init__
EmptyValidationReport ==
    [issues |-> <<>>,
     _severity_counts |-> EmptyMap,
     _code_counts |-> EmptyMap,
     _variable_counts |-> EmptyMap,
     _severity_buckets |-> [sev \in IssueSeverity |-> <<>>],
     _code_buckets |-> EmptyMap,
     _variable_buckets |-> EmptyMap,
     _severity_variables |-> [sev \in IssueSeverity |-> {}],
     _severity_variable_cache |-> EmptyMap,
     _top_variables_cache |-> None,
     _most_common_codes_cache |-> None,
     _sorted_severity_cache |-> EmptyMap,
     _sorted_code_cache |-> EmptyMap,
     _sorted_variable_cache |-> EmptyMap,
     _counts_by_code_cache |-> None,
     _counts_by_code_mapping |-> None,
     _variables_cache |-> None,
     _warning_summary_cache |-> None,
     _variables_by_severity_cache |-> None]

\* dict.pop(key, None)
dict_pop(d, key) == [k \in DOMAIN d \ {key} |-> d[k]]

\* _invalidate_issue_caches were it to keep the ranking of the variables
_invalidate_issue_caches_keeping_top(rep, issue) ==
    [rep EXCEPT
        !._severity_variable_cache = dict_pop(@, issue.severity),
        !._sorted_severity_cache = dict_pop(@, issue.severity),
        !._sorted_code_cache = dict_pop(@, issue.code),
        !._sorted_variable_cache = dict_pop(@, issue.variable),
        !._counts_by_code_cache = None,
        !._counts_by_code_mapping = None,
        !._variables_cache = None,
        !._warning_summary_cache = None,
        !._variables_by_severity_cache = None,
        !._most_common_codes_cache = None]

_invalidate_issue_caches(rep, issue) ==
    [rep EXCEPT
        !._severity_variable_cache = dict_pop(@, issue.severity),
        !._sorted_severity_cache = dict_pop(@, issue.severity),
        !._sorted_code_cache = dict_pop(@, issue.code),
        !._sorted_variable_cache = dict_pop(@, issue.variable),
        !._counts_by_code_cache = None,
        !._counts_by_code_mapping = None,
        !._variables_cache = None,
        !._warning_summary_cache = None,
        !._variables_by_severity_cache = None,
        !._top_variables_cache = None,
        !._most_common_codes_cache = None]

_track_issue(rep, issue) ==
    _invalidate_issue_caches(
        [rep EXCEPT
            !._severity_counts = counter_inc(@, issue.severity),
            !._code_counts = counter_inc(@, issue.code),
            !._variable_counts = counter_inc(@, issue.variable),
            !._severity_buckets[issue.severity] = Append(@, issue),
            !._code_buckets = bucket_append(@, issue.code, issue),
            !._variable_buckets = bucket_append(@, issue.variable, issue),
            !._severity_variables[issue.severity] = @ \cup {issue.variable}],
        issue)

\* ValidationReport.add
add(rep, issue) ==
    _track_issue([rep EXCEPT !.issues = Append(@, issue)], issue)

\* extend were it to append the issues without tracking them
extend_untracked(rep, issues) == [rep EXCEPT !.issues = @ \o issues]

\* ValidationReport.extend
RECURSIVE extend(_, _)
extend(rep, issues) ==
    IF issues = <<>> THEN rep
    ELSE extend(_track_issue([rep EXCEPT !.issues = Append(@, Head(issues))],
                             Head(issues)),
                Tail(issues))

\* ValidationReport(issues=...): __post_init__ re-adds the captured issues
ValidationReport(issues) ==
    IF issues # <<>> THEN extend(EmptyValidationReport, issues)
    ELSE EmptyValidationReport

error_count(rep) == counter_get(rep._severity_counts, ERROR)
warning_count(rep) == counter_get(rep._severity_counts, WARNING)
info_count(rep) == counter_get(rep._severity_counts, INFO)
is_success(rep) == error_count(rep) = 0
issue_count(rep) == Len(rep.issues)

(***************************************************************************)
(* report.py: DiffEntry and DiffReport.                                    *)
(***************************************************************************)
MISSING == "missing"
EXTRA == "extra"
CHANGED == "changed"
DiffKind == {MISSING, EXTRA, CHANGED}

DiffEntry(variable, kind, l, r, secret) ==
    [variable |-> variable, kind |-> kind, left |-> l, right |-> r,
     secret |-> secret]

EmptyDiffReport ==
    [entries |-> <<>>,
     _counts |-> EmptyMap,
     _kind_buckets |-> [kind \in DiffKind |-> <<>>],
     _variable_counts |-> EmptyMap,
     _top_variables_cache |-> None,
     _variables_by_kind_cache |-> None,
     _sorted_kind_cache |-> EmptyMap,
     _variables_cache |-> None,
     _sorted_entries_cache |-> None,
     _counts_by_kind_mapping |-> None]

_invalidate_entry_caches(rep, entry) ==
    [rep EXCEPT
        !._top_variables_cache = None,
        !._variables_by_kind_cache = None,
        !._sorted_kind_cache = dict_pop(@, entry.kind),
        !._variables_cache = None,
        !._sorted_entries_cache = None,
        !._counts_by_kind_mapping = None]

_track_entry(rep, entry) ==
    _invalidate_entry_caches(
        [rep EXCEPT
            !._counts = counter_inc(@, entry.kind),
            !._kind_buckets[entry.kind] = Append(@, entry),
            !._variable_counts = counter_inc(@, entry.variable)],
        entry)

\* DiffReport.add
diff_add(rep, entry) ==
    _track_entry([rep EXCEPT !.entries = Append(@, entry)], entry)

is_clean(rep) == rep.entries = <<>>

(***************************************************************************)
(* utils.py and spec.py: EnvSpec.validate.                                 *)
(***************************************************************************)
sort_key_less(a, b) ==
    IF casefold(a) # casefold(b) THEN str_less(casefold(a), casefold(b))
    ELSE str_less(a, b)

\* the sort were its key the exact name alone
RECURSIVE casefold_sorted_by_exact_name(_)
casefold_sorted_by_exact_name(values) ==
    IF values = {} THEN <<>>
    ELSE LET first == CHOOSE x \in values :
                          \A y \in values \ {x} : str_less(x, y)
         IN  <<first>> \o casefold_sorted_by_exact_name(values \ {first})

\* sorted(values, key=lambda item: (item.casefold(), item))
RECURSIVE casefold_sorted(_)
casefold_sorted(values) ==
    IF values = {} THEN <<>>
    ELSE LET first == CHOOSE x \in values :
                          \A y \in values \ {x} : sort_key_less(x, y)
         IN  <<first>> \o casefold_sorted(values \ {first})

\* EnvSnapshot.get: None for an absent key
get(snapshot, key) ==
    IF key \in DOMAIN snapshot.values THEN Some(snapshot.values[key]) ELSE None

keys(snapshot) == DOMAIN snapshot.values

variable_names(variables) == [i \in 1..Len(variables) |-> variables[i].name]

\* the except clause around spec.validate(raw)
invalid_issue(spec, checked, rep) ==
    IF checked.ok THEN rep
    ELSE add(rep, ValidationIssue(spec.name, checked.message, ERROR, "invalid", None))

\* the loop body were it to skip an absent variable only when it both has a
\* default and is optional
validate_variable_skip_both(spec, raw, rep) ==
    IF raw = None
    THEN IF spec.default # None /\ ~spec.required THEN rep
         ELSE add(rep, ValidationIssue(spec.name,
                  <<"missing required variable">>, ERROR, "missing",
                  <<"Declare it in the environment or provide a default.">>))
    ELSE invalid_issue(spec, VariableSpec_validate(spec, raw[1]), rep)

\* the body of the loop of _validate_variables, raw being snapshot.get(name)
validate_variable(spec, raw, rep) ==
    IF raw = None
    THEN IF spec.default # None \/ ~spec.required THEN rep
         ELSE add(rep, ValidationIssue(spec.name,
                  <<"missing required variable">>, ERROR, "missing",
                  <<"Declare it in the environment or provide a default.">>))
    ELSE invalid_issue(spec, VariableSpec_validate(spec, raw[1]), rep)

RECURSIVE validate_variables_from(_, _, _, _)
validate_variables_from(variables, idx, snapshot, rep) ==
    IF idx > Len(variables) THEN rep
    ELSE validate_variables_from(variables, idx + 1, snapshot,
            validate_variable(variables[idx],
                              get(snapshot, variables[idx].name), rep))

_validate_variables(variables, snapshot, rep) ==
    validate_variables_from(variables, 1, snapshot, rep)

RECURSIVE add_each(_, _)
add_each(rep, issues) ==
    IF issues = <<>> THEN rep ELSE add_each(add(rep, Head(issues)), Tail(issues))

extra_issues(extras) ==
    [i \in 1..Len(extras) |->
        ValidationIssue(extras[i], <<"variable not declared in spec">>,
            WARNING, "extra",
            <<"Add it to envkeep.toml or remove it from the environment.">>)]

\* the check were it to visit every snapshot key, declared or not
_check_for_extra_variables_every_key(variables, snapshot, rep, allow) ==
    IF allow THEN rep
    ELSE add_each(rep, extra_issues(casefold_sorted(keys(snapshot))))

_check_for_extra_variables(variables, snapshot, rep, allow) ==
    IF allow THEN rep
    ELSE add_each(rep, extra_issues(
            casefold_sorted(keys(snapshot) \ Range(variable_names(variables)))))

duplicate_issues(dups) ==
    [i \in 1..Len(dups) |->
        ValidationIssue(dups[i], <<"variable declared multiple times">>,
            WARNING, "duplicate",
            <<"Remove duplicate assignments to keep configuration deterministic.">>)]

\* the check were it to visit snapshot.duplicates as recorded
_check_for_duplicate_keys_as_recorded(snapshot, rep) ==
    add_each(rep, duplicate_issues(snapshot.duplicates))

_check_for_duplicate_keys(snapshot, rep) ==
    add_each(rep, duplicate_issues(duplicate_keys(snapshot)))

\* f"line {line_no}"
line_label(line_no) == <<"l", "i", "n", "e", " ">> \o int_str(line_no)

invalid_line_issues(bad) ==
    [i \in 1..Len(bad) |->
        ValidationIssue(line_label(bad[i][1]), <<"line could not be parsed">>,
            WARNING, "invalid_line", <<"Review the syntax: ", bad[i][2]>>)]

_check_for_invalid_lines(snapshot, rep) ==
    add_each(rep, invalid_line_issues(malformed_lines(snapshot)))

\* EnvSpec.validate(snapshot, allow_extra=allow)
validate(variables, snapshot, allow) ==
    _check_for_invalid_lines(snapshot,
        _check_for_duplicate_keys(snapshot,
            _check_for_extra_variables(variables, snapshot,
                _validate_variables(variables, snapshot, EmptyValidationReport),
                allow)))

(***************************************************************************)
(* spec.py: EnvSpec.diff.  An outcome is the DiffReport returned, or the   *)
(* ValueError that left the call.                                          *)
(***************************************************************************)
Returned(rep) == [raised |-> FALSE, report |-> rep]
Raised(msg) == [raised |-> TRUE, message |-> msg]

extra_entry(spec, normalized, rep) ==
    IF ~normalized.ok THEN Raised(normalized.message)
    ELSE Returned(diff_add(rep,
            DiffEntry(spec.name, EXTRA, None, Some(normalized.value), spec.secret)))

_add_extra_variable_diff(spec, right_val, rep) ==
    extra_entry(spec, VariableSpec_normalize(spec, right_val), rep)

missing_entry(spec, normalized, rep) ==
    IF ~normalized.ok THEN Raised(normalized.message)
    ELSE Returned(diff_add(rep,
            DiffEntry(spec.name, MISSING, Some(normalized.value), None, spec.secret)))

_add_missing_variable_diff(spec, left_val, rep) ==
    missing_entry(spec, VariableSpec_normalize(spec, left_val), rep)

\* the try block of _add_changed_variable_diff and what follows it
changed_entry_secret_by_raw_text(spec, left_val, right_val, left_normalized, right_normalized, rep) ==
    IF ~left_normalized.ok \/ ~right_normalized.ok \/ spec.secret
    THEN IF left_val # right_val
         THEN Returned(diff_add(rep,
                 DiffEntry(spec.name, CHANGED, Some(left_val), Some(right_val),
                           spec.secret)))
         ELSE Returned(rep)
    ELSE IF left_normalized.value # right_normalized.value
    THEN Returned(diff_add(rep,
            DiffEntry(spec.name, CHANGED, Some(left_normalized.value),
                      Some(right_normalized.value), spec.secret)))
    ELSE Returned(rep)

changed_entry(spec, left_val, right_val, left_normalized, right_normalized, rep) ==
    IF ~left_normalized.ok \/ ~right_normalized.ok
    THEN Returned(diff_add(rep,
            DiffEntry(spec.name, CHANGED, Some(left_val), Some(right_val),
                      spec.secret)))
    ELSE IF left_normalized.value # right_normalized.value
    THEN Returned(diff_add(rep,
            DiffEntry(spec.name, CHANGED, Some(left_normalized.value),
                      Some(right_normalized.value), spec.secret)))
    ELSE Returned(rep)

_add_changed_variable_diff(spec, left_val, right_val, rep) ==
    changed_entry(spec, left_val, right_val,
                  VariableSpec_normalize(spec, left_val),
                  VariableSpec_normalize(spec, right_val), rep)

\* the body of the loop of _compare_variables
compare_variable(spec, left_val, right_val, rep) ==
    IF left_val = None /\ right_val = None THEN Returned(rep)
    ELSE IF left_val = None
         THEN _add_extra_variable_diff(spec, right_val[1], rep)
    ELSE IF right_val = None
         THEN _add_missing_variable_diff(spec, left_val[1], rep)
    ELSE _add_changed_variable_diff(spec, left_val[1], right_val[1], rep)

RECURSIVE compare_variables_from(_, _, _, _, _)
compare_variables_from(variables, idx, l, r, step) ==
    IF step.raised \/ idx > Len(variables) THEN step
    ELSE compare_variables_from(variables, idx + 1, l, r,
            compare_variable(variables[idx], get(l, variables[idx].name),
                             get(r, variables[idx].name), step.report))

_compare_variables(variables, l, r, rep) ==
    compare_variables_from(variables, 1, l, r, Returned(rep))

RECURSIVE diff_add_each(_, _)
diff_add_each(rep, entries) ==
    IF entries = <<>> THEN rep
    ELSE diff_add_each(diff_add(rep, Head(entries)), Tail(entries))

missing_entries(l, left_extra) ==
    [i \in 1..Len(left_extra) |->
        DiffEntry(left_extra[i], MISSING, get(l, left_extra[i]), None, FALSE)]

extra_entries(r, right_extra) ==
    [i \in 1..Len(right_extra) |->
        DiffEntry(right_extra[i], EXTRA, None, get(r, right_extra[i]), FALSE)]

_handle_extra_variables(variables, l, r, rep) ==
    diff_add_each(
        diff_add_each(rep,
            missing_entries(l, casefold_sorted(
                keys(l) \ Range(variable_names(variables))))),
        extra_entries(r, casefold_sorted(
            keys(r) \ Range(variable_names(variables)))))

\* what diff returns after _compare_variables
diff_after_compare(variables, l, r, compared) ==
    IF compared.raised THEN compared
    ELSE Returned(_handle_extra_variables(variables, l, r, compared.report))

\* EnvSpec.diff(left, right)
diff(variables, l, r) ==
    diff_after_compare(variables, l, r,
        _compare_variables(variables, l, r, EmptyDiffReport))

(***************************************************************************)
(* The inputs the operations are run on.                                   *)
(***************************************************************************)
SeqsUpTo(S, n) == UNION {[1..k -> S] : k \in 0..n}

\* env-file lines: assignments, a repeated key, export, quoting, comments,
\* blank lines and lines that cannot be parsed
SampleLines ==
    { <<"A", "=", "1">>,
      <<"A", "=", "2">>,
      <<" ", "a", " ", "=", " ", "x", " ", "#", "c">>,
      <<"e", "x", "p", "o", "r", "t", " ", "B", "=", "\"", "1", " ", "#", "\"">>,
      <<BOM, "A", "=", "1">>,
      <<>>,
      <<" ", "#", "c">>,
      <<" ", "X", " ">>,
      <<"B", "=", "\"", "1">> }

Texts == SeqsUpTo(SampleLines, MaxLines)

NameA == <<"A">>
Namea == <<"a">>
NameB == <<"B">>
DeclaredNames == {NameA, Namea}
SnapshotKeys == {NameA, Namea, NameB}

\* raw values: a canonical int, the same int written otherwise, text that is
\* no int, and the empty value
RawValues == {<<"1">>, <<"0", "1">>, <<"x">>, <<>>}

Maps(K, V) == UNION {[D -> V] : D \in SUBSET K}

\* the variable declarations EnvSpec.from_dict is given
Declarations(name) ==
    { VariableSpec(name, "int", TRUE, None, FALSE),
      VariableSpec(name, "int", TRUE, Some(<<"1">>), FALSE),
      VariableSpec(name, "string", FALSE, None, TRUE),
      VariableSpec(name, "bool", TRUE, None, TRUE),
      [VariableSpec(name, "int", FALSE, None, FALSE) EXCEPT !.min_value = Some(2)] }

DeclarationPool == UNION {Declarations(name) : name \in DeclaredNames}

\* variable lists with unique names (EnvSpec.from_dict admits no other)
EnvSpecs ==
    {<<>>} \cup {<<v>> : v \in DeclarationPool}
    \cup {<<v, w>> : v \in Declarations(NameA), w \in Declarations(Namea)}
    \cup {<<w, v>> : v \in Declarations(NameA), w \in Declarations(Namea)}

EmptySnapshot == EnvSnapshot(EmptyMap, <<>>, <<>>)

\* the duplicates a parse of a file holding these keys can record
DuplicateLists(K) ==
    {<<>>} \cup {<<k>> : k \in K}
    \cup {<<k[1], k[2], k[1]>> : k \in {p \in K \X K : sort_key_less(p[2], p[1])}}

InvalidLineLists ==
    { <<>>,
      << <<1, <<" ", "X", " ">>>>, <<3, <<"B", "=", "\"", "1">>>> >> }

Snapshots ==
    UNION { {EnvSnapshot(m, d, i) : d \in DuplicateLists(DOMAIN m), i \in InvalidLineLists}
            : m \in Maps(SnapshotKeys, {<<"1">>, <<"x">>}) }

DiffSnapshots ==
    {EnvSnapshot(m, <<>>, <<>>) : m \in Maps(SnapshotKeys, RawValues \ {<<>>})}

\* variable lists compared by diff
DiffDeclarations(name) ==
    { VariableSpec(name, "int", TRUE, None, FALSE),
      VariableSpec(name, "string", TRUE, None, TRUE) }

DiffEnvSpecs ==
    {<<>>} \cup {<<v>> : v \in DiffDeclarations(NameA) \cup DiffDeclarations(Namea)}
    \cup {<<v, w>> : v \in DiffDeclarations(NameA), w \in DiffDeclarations(Namea)}
    \cup {<<w, v>> : v \in DiffDeclarations(NameA), w \in DiffDeclarations(Namea)}

IssuePool ==
    { ValidationIssue(NameA, <<"missing required variable">>, ERROR, "missing", None),
      ValidationIssue(NameA, <<"variable declared multiple times">>, WARNING, "duplicate", None),
      ValidationIssue(NameB, <<"variable not declared in spec">>, WARNING, "extra", None),
      ValidationIssue(line_label(1), <<"line could not be parsed">>, WARNING, "invalid_line", None),
      ValidationIssue(Namea, <<"note">>, INFO, "custom", None) }

(***************************************************************************)
(* The parser: EnvSnapshot.from_text on a text.                            *)
(***************************************************************************)
Idle ==
    /\ text = <<>>
    /\ envspec = <<>>
    /\ left = EmptySnapshot
    /\ right = EmptySnapshot
    /\ allow_extra = FALSE
    /\ report = EmptyValidationReport
    /\ diff_report = Returned(EmptyDiffReport)
    /\ data = None
    /\ outcome = None
    /\ pc = "ready"

InitParse ==
    /\ text \in Texts
    /\ envspec = <<>>
    /\ left = EmptySnapshot
    /\ right = EmptySnapshot
    /\ allow_extra = FALSE
    /\ report = EmptyValidationReport
    /\ diff_report = Returned(EmptyDiffReport)
    /\ data = None
    /\ outcome = None
    /\ pc = "ready"

FromText ==
    /\ pc = "ready"
    /\ left' = from_text(text)
    /\ pc' = "parsed"
    /\ UNCHANGED <<text, envspec, right, allow_extra, report, diff_report, data, outcome>>

SpecParse == InitParse /\ [][FromText]_vars

(***************************************************************************)
(* EnvSpec.validate on a spec and a snapshot.                              *)
(***************************************************************************)
InitValidate ==
    /\ text = <<>>
    /\ envspec \in EnvSpecs
    /\ left \in Snapshots
    /\ right = EmptySnapshot
    /\ allow_extra = FALSE
    /\ report = EmptyValidationReport
    /\ diff_report = Returned(EmptyDiffReport)
    /\ data = None
    /\ outcome = None
    /\ pc = "ready"

Validate ==
    \E allow \in BOOLEAN :
        /\ pc \in {"ready", "validated"}
        /\ report' = validate(envspec, left, allow)
        /\ allow_extra' = allow
        /\ pc' = "validated"
        /\ UNCHANGED <<text, envspec, left, right, diff_report, data, outcome>>

SpecValidate == InitValidate /\ [][Validate]_vars

(***************************************************************************)
(* EnvSpec.diff on a spec and two snapshots.                               *)
(***************************************************************************)
InitDiff ==
    /\ text = <<>>
    /\ envspec \in DiffEnvSpecs
    /\ left \in DiffSnapshots
    /\ right \in DiffSnapshots
    /\ allow_extra = FALSE
    /\ report = EmptyValidationReport
    /\ diff_report = Returned(EmptyDiffReport)
    /\ data = None
    /\ outcome = None
    /\ pc = "ready"

Diff ==
    /\ pc = "ready"
    /\ diff_report' = diff(envspec, left, right)
    /\ pc' = IF diff_report'.raised THEN "diff_raised" ELSE "diffed"
    /\ UNCHANGED <<text, envspec, left, right, allow_extra, report, data, outcome>>

SpecDiff == InitDiff /\ [][Diff]_vars

(***************************************************************************)
(* A ValidationReport that is constructed, added to and extended.          *)
(***************************************************************************)
InitReport ==
    /\ text = <<>>
    /\ envspec = <<>>
    /\ left = EmptySnapshot
    /\ right = EmptySnapshot
    /\ allow_extra = FALSE
    /\ report \in {ValidationReport(issues) : issues \in SeqsUpTo(IssuePool, 1)}
    /\ diff_report = Returned(EmptyDiffReport)
    /\ data = None
    /\ outcome = None
    /\ pc = "ready"

Add ==
    \E issue \in IssuePool :
        /\ issue_count(report) < MaxIssues
        /\ report' = add(report, issue)
        /\ UNCHANGED <<text, envspec, left, right, allow_extra, diff_report, pc, data, outcome>>

Extend ==
    \E issues \in SeqsUpTo(IssuePool, 2) :
        /\ issue_count(report) + Len(issues) <= MaxIssues
        /\ report' = extend(report, issues)
        /\ UNCHANGED <<text, envspec, left, right, allow_extra, diff_report, pc, data, outcome>>

NextReport == Add \/ Extend

SpecReport == InitReport /\ [][NextReport]_vars

(***************************************************************************)
(* Properties of EnvSpec.validate.                                         *)
(***************************************************************************)
\* the positions of the issues of a report that are about a variable
IssuesAbout(rep, variable) ==
    {i \in 1..Len(rep.issues) : rep.issues[i].variable = variable}

IssuesWith(rep, variable, code) ==
    {i \in IssuesAbout(rep, variable) : rep.issues[i].code = code}

Absent(snapshot, spec) == spec.name \notin keys(snapshot)

MustBePresent(spec) == spec.required /\ spec.default = None

\* C1: a declared variable that is absent from the snapshot has exactly one
\* issue, an ERROR `missing` with a hint, when it is required and has no
\* default, and no issue at all when it has a default or is not required.
C1_MissingRequired ==
    pc = "validated" =>
        \A k \in 1..Len(envspec) :
            Absent(left, envspec[k]) =>
                IF MustBePresent(envspec[k])
                THEN /\ Cardinality(IssuesAbout(report, envspec[k].name)) = 1
                     /\ \A i \in IssuesAbout(report, envspec[k].name) :
                            /\ report.issues[i].severity = ERROR
                            /\ report.issues[i].code = "missing"
                            /\ report.issues[i].hint # None
                ELSE IssuesAbout(report, envspec[k].name) = {}

\* one validate call meets an absent required variable, and an absent one
\* that has a default
C1_Witness ==
    /\ pc = "validated"
    /\ \E k \in 1..Len(envspec) :
          Absent(left, envspec[k]) /\ MustBePresent(envspec[k])
    /\ \E k \in 1..Len(envspec) :
          Absent(left, envspec[k]) /\ envspec[k].default # None

\* C3: validate reports every finding of a snapshot in one report: one ERROR
\* `invalid` carrying the failure message per present declared value that
\* fails validation, one WARNING `duplicate` per distinct duplicate key, one
\* WARNING `invalid_line` labelled `line N` with the line in its hint per
\* malformed line, whatever else the snapshot holds.
C3_CompleteReport ==
    pc = "validated" =>
        /\ \A k \in 1..Len(envspec) :
              ~Absent(left, envspec[k]) =>
                  LET checked == VariableSpec_validate(envspec[k],
                                     left.values[envspec[k].name])
                      found == IssuesWith(report, envspec[k].name, "invalid")
                  IN  IF checked.ok THEN found = {}
                      ELSE /\ Cardinality(found) = 1
                           /\ \A i \in found :
                                 /\ report.issues[i].severity = ERROR
                                 /\ report.issues[i].message = checked.message
        /\ \A key \in SnapshotKeys :
              Cardinality(IssuesWith(report, key, "duplicate")) =
                  IF key \in Range(left.duplicates) THEN 1 ELSE 0
        /\ \A i \in 1..Len(report.issues) :
              report.issues[i].code = "duplicate" =>
                  /\ report.issues[i].severity = WARNING
                  /\ report.issues[i].variable \in Range(left.duplicates)
        /\ \A j \in 1..Len(left.invalid_lines) :
              \E i \in 1..Len(report.issues) :
                  /\ IssuesWith(report, line_label(left.invalid_lines[j][1]),
                                "invalid_line") = {i}
                  /\ report.issues[i].severity = WARNING
                  /\ report.issues[i].hint =
                        <<"Review the syntax: ", left.invalid_lines[j][2]>>
        /\ Cardinality({i \in 1..Len(report.issues) :
                           report.issues[i].code = "invalid_line"})
              = Len(left.invalid_lines)

\* one snapshot holds an invalid value, an undeclared key, a key repeated
\* more than once beside another repeated key, and malformed lines
C3_Witness ==
    /\ pc = "validated"
    /\ ~allow_extra
    /\ \E k \in 1..Len(envspec) :
          /\ ~Absent(left, envspec[k])
          /\ ~VariableSpec_validate(envspec[k], left.values[envspec[k].name]).ok
    /\ keys(left) \ Range(variable_names(envspec)) # {}
    /\ Len(left.duplicates) > Cardinality(Range(left.duplicates))
    /\ Cardinality(Range(left.duplicates)) > 1
    /\ Len(left.invalid_lines) > 1

NotExtra(issue) == issue.code # "extra"

\* C8: with allow_extra no `extra` issue is emitted; without it exactly one
\* WARNING `extra` per undeclared snapshot key and none for a declared key;
\* the other issues of the report are the same for both values of the flag.
C8_AllowExtra ==
    pc = "validated" =>
        /\ allow_extra =>
              \A i \in 1..Len(report.issues) : NotExtra(report.issues[i])
        /\ ~allow_extra =>
              /\ \A key \in SnapshotKeys :
                    Cardinality(IssuesWith(report, key, "extra")) =
                        IF key \in keys(left) \ Range(variable_names(envspec))
                        THEN 1 ELSE 0
              /\ \A i \in 1..Len(report.issues) :
                    ~NotExtra(report.issues[i]) =>
                        /\ report.issues[i].severity = WARNING
                        /\ report.issues[i].variable \in keys(left)
        /\ SelectSeq(report.issues, NotExtra)
              = SelectSeq(validate(envspec, left, ~allow_extra).issues, NotExtra)

\* validate without allow_extra on a snapshot with a declared key, an
\* undeclared key and findings of other kinds
C8_Witness ==
    /\ pc = "validated"
    /\ ~allow_extra
    /\ keys(left) \ Range(variable_names(envspec)) # {}
    /\ keys(left) \cap Range(variable_names(envspec)) # {}
    /\ \E i \in 1..Len(report.issues) : report.issues[i].code = "missing"
    /\ \E i \in 1..Len(report.issues) : report.issues[i].code = "duplicate"

(***************************************************************************)
(* Properties of ValidationReport.                                         *)
(***************************************************************************)
\* C2: after construction and any adds and extends, is_success holds exactly
\* when no accumulated issue has severity ERROR.
C2_SuccessIffNoError ==
    is_success(report) <=>
        \A i \in 1..Len(report.issues) : report.issues[i].severity # ERROR

\* a report that holds warnings of each kind and an info issue, and no error
C2_Witness ==
    /\ is_success(report)
    /\ \A code \in {"extra", "duplicate", "invalid_line"} :
          \E i \in 1..Len(report.issues) : report.issues[i].code = code
    /\ \E i \in 1..Len(report.issues) : report.issues[i].severity = INFO

(***************************************************************************)
(* Properties of EnvSpec.diff.                                             *)
(***************************************************************************)
\* the positions of the entries of a kind that a diff report holds for a name
EntriesOf(rep, variable, kind) ==
    {i \in 1..Len(rep.entries) :
        rep.entries[i].variable = variable /\ rep.entries[i].kind = kind}

EntriesAbout(rep, variable) ==
    {i \in 1..Len(rep.entries) : rep.entries[i].variable = variable}

InBoth(name) == name \in keys(left) \cap keys(right)

Undeclared(name) == name \notin Range(variable_names(envspec))

\* C4: in the report diff returns, a name present in both snapshots with
\* equal raw text has no `changed` entry, and a declared name whose two
\* canonical values differ has exactly one.
C4_ChangedIffDifferent ==
    pc = "diffed" =>
        /\ \A name \in SnapshotKeys :
              InBoth(name) /\ left.values[name] = right.values[name] =>
                  EntriesOf(diff_report.report, name, CHANGED) = {}
        /\ \A k \in 1..Len(envspec) :
              InBoth(envspec[k].name) =>
                  LET l == VariableSpec_normalize(envspec[k], left.values[envspec[k].name])
                      r == VariableSpec_normalize(envspec[k], right.values[envspec[k].name])
                  IN  l.ok /\ r.ok /\ l.value # r.value =>
                          Cardinality(EntriesOf(diff_report.report,
                                                envspec[k].name, CHANGED)) = 1

\* C5: for a declared variable present in both snapshots, when either value
\* fails to normalize diff does not raise and its report holds exactly one
\* `changed` entry for it, with both raw values; when both normalize, a
\* `changed` entry for it holds the two canonical values.
C5_ChangedFallsBackToRaw ==
    pc \in {"diffed", "diff_raised"} =>
        \A k \in 1..Len(envspec) :
            InBoth(envspec[k].name) =>
                LET l == VariableSpec_normalize(envspec[k], left.values[envspec[k].name])
                    r == VariableSpec_normalize(envspec[k], right.values[envspec[k].name])
                IN  IF ~l.ok \/ ~r.ok
                    THEN /\ ~diff_report.raised
                         /\ \E i \in 1..Len(diff_report.report.entries) :
                               /\ EntriesOf(diff_report.report, envspec[k].name,
                                            CHANGED) = {i}
                               /\ diff_report.report.entries[i].left
                                     = Some(left.values[envspec[k].name])
                               /\ diff_report.report.entries[i].right
                                     = Some(right.values[envspec[k].name])
                    ELSE ~diff_report.raised =>
                            \A i \in EntriesOf(diff_report.report, envspec[k].name,
                                               CHANGED) :
                                /\ diff_report.report.entries[i].left = Some(l.value)
                                /\ diff_report.report.entries[i].right = Some(r.value)

\* the value diff is to report for one side: canonical when it normalizes,
\* raw otherwise
CanonicalOrRaw(spec, raw) ==
    IF VariableSpec_normalize(spec, raw).ok
    THEN VariableSpec_normalize(spec, raw).value ELSE raw

\* C6: diff never raises, and for a declared variable present in one
\* snapshot only its report holds exactly one entry: `extra` with left None
\* when only the right has it, `missing` with right None when only the left
\* has it, the present value canonical when it normalizes and raw otherwise.
C6_OneSidedDeclared ==
    pc \in {"diffed", "diff_raised"} =>
        /\ ~diff_report.raised
        /\ \A k \in 1..Len(envspec) :
              LET name == envspec[k].name IN
              /\ name \in keys(right) \ keys(left) =>
                    \E i \in 1..Len(diff_report.report.entries) :
                        /\ EntriesAbout(diff_report.report, name) = {i}
                        /\ diff_report.report.entries[i].kind = EXTRA
                        /\ diff_report.report.entries[i].left = None
                        /\ diff_report.report.entries[i].right
                              = Some(CanonicalOrRaw(envspec[k], right.values[name]))
              /\ name \in keys(left) \ keys(right) =>
                    \E i \in 1..Len(diff_report.report.entries) :
                        /\ EntriesAbout(diff_report.report, name) = {i}
                        /\ diff_report.report.entries[i].kind = MISSING
                        /\ diff_report.report.entries[i].right = None
                        /\ diff_report.report.entries[i].left
                              = Some(CanonicalOrRaw(envspec[k], left.values[name]))

\* C7: in the report diff returns, an undeclared key has a `missing` entry
\* exactly when only the left snapshot has it and an `extra` entry exactly
\* when only the right snapshot has it, each with the raw value, and no
\* other entry.
C7_UndeclaredKeys ==
    pc = "diffed" =>
        \A name \in SnapshotKeys :
            Undeclared(name) =>
                /\ Cardinality(EntriesOf(diff_report.report, name, MISSING)) =
                      IF name \in keys(left) \ keys(right) THEN 1 ELSE 0
                /\ Cardinality(EntriesOf(diff_report.report, name, EXTRA)) =
                      IF name \in keys(right) \ keys(left) THEN 1 ELSE 0
                /\ EntriesOf(diff_report.report, name, CHANGED) = {}
                /\ \A i \in EntriesOf(diff_report.report, name, MISSING) :
                      /\ diff_report.report.entries[i].left = get(left, name)
                      /\ diff_report.report.entries[i].right = None
                /\ \A i \in EntriesOf(diff_report.report, name, EXTRA) :
                      /\ diff_report.report.entries[i].left = None
                      /\ diff_report.report.entries[i].right = get(right, name)

(***************************************************************************)
(* Properties of the parser.                                               *)
(***************************************************************************)
\* the lines _parse_env enumerates
Lines == strip_bom(text)

\* what _parse_line returns for each line
ParsedLines == [i \in 1..Len(Lines) |-> _parse_line(Lines[i])]

\* the lines that assign a key, parsed being ParsedLines
AssignmentsOf(parsed, key) ==
    {i \in DOMAIN parsed : parsed[i] # None /\ parsed[i][1].key = key}

Maximum(S) == CHOOSE x \in S : \A y \in S : y <= x

Minimum(S) == CHOOSE x \in S : \A y \in S : x <= y

\* the line on which a key assigned more than once is first repeated
FirstRepetition(parsed, key) ==
    Minimum(AssignmentsOf(parsed, key) \ {Minimum(AssignmentsOf(parsed, key))})

\* C9: after a parse, values maps each assigned key to the value of its last
\* accepted assignment; duplicate_keys() holds exactly the keys assigned more
\* than once, each once, ordered by the line of their first repetition.
C9_LastWinsAndDuplicates ==
    pc = "parsed" =>
        LET parsed == ParsedLines
            repeated == duplicate_keys(left)
        IN  /\ keys(left) = {key \in SnapshotKeys : AssignmentsOf(parsed, key) # {}}
            /\ \A key \in keys(left) :
                  left.values[key] = parsed[Maximum(AssignmentsOf(parsed, key))][1].value
            /\ Range(repeated)
                  = {key \in SnapshotKeys : Cardinality(AssignmentsOf(parsed, key)) > 1}
            /\ \A i, j \in 1..Len(repeated) :
                  i < j => FirstRepetition(parsed, repeated[i])
                              < FirstRepetition(parsed, repeated[j])

\* two keys are repeated, the one that appears first being repeated last,
\* and the last value of a key differs from its first
C9_Witness ==
    /\ pc = "parsed"
    /\ Len(duplicate_keys(left)) = 2
    /\ Minimum(AssignmentsOf(ParsedLines, duplicate_keys(left)[2]))
          < Minimum(AssignmentsOf(ParsedLines, duplicate_keys(left)[1]))
    /\ \E key \in keys(left) :
          left.values[key] # ParsedLines[Minimum(AssignmentsOf(ParsedLines, key))][1].value

\* a line that is neither blank nor a comment and yields no assignment
Malformed(line) ==
    /\ strip(line) # <<>>
    /\ strip(line)[1] # "#"
    /\ \/ _ENV_LINE_RE(strip(line)) = None
       \/ _sanitize_value(_ENV_LINE_RE(strip(line))[1].value) = None

\* the numbers of the malformed lines from line i on, in order
RECURSIVE MalformedFrom(_, _)
MalformedFrom(lines, i) ==
    IF i > Len(lines) THEN <<>>
    ELSE (IF Malformed(lines[i]) THEN <<i>> ELSE <<>>) \o MalformedFrom(lines, i + 1)

WellFormed(line) == ~Malformed(line)

\* C10 as stated: malformed_lines() holds, in order, every malformed line
\* with its 1-indexed number and its trimmed text.
C10_MalformedTrimmed ==
    pc = "parsed" =>
        LET bad == MalformedFrom(Lines, 1)
        IN  malformed_lines(left) =
                [j \in 1..Len(bad) |-> <<bad[j], strip(Lines[bad[j]])>>]

\* C10: malformed_lines() holds, in order, every malformed line with its
\* 1-indexed number and its text as written, surrounding whitespace kept;
\* values and duplicates are those of the text without its malformed lines.
C10_MalformedAsWritten ==
    pc = "parsed" =>
        LET bad == MalformedFrom(Lines, 1)
            rest == parse_env_from(SelectSeq(Lines, WellFormed), 1, EmptySnapshot)
        IN  /\ malformed_lines(left) = [j \in 1..Len(bad) |-> <<bad[j], Lines[bad[j]]>>]
            /\ left.values = rest.values
            /\ left.duplicates = rest.duplicates

\* a line that does not match and a line with an unterminated quote are
\* recorded, one of them with surrounding whitespace, and an assignment
\* after them is accepted
C10_Witness ==
    /\ pc = "parsed"
    /\ Len(malformed_lines(left)) = 2
    /\ \E j \in 1..2 : _ENV_LINE_RE(strip(malformed_lines(left)[j][2])) # None
    /\ \E j \in 1..2 : strip(malformed_lines(left)[j][2]) # malformed_lines(left)[j][2]
    /\ \E i \in 1..Len(Lines) :
          ParsedLines[i] # None /\ malformed_lines(left)[2][1] < i

(***************************************************************************)
(* The parser on one assignment line `A=...`, the text after the `=` drawn *)
(* from backslashes, quotes, `#`, blanks and letters.                      *)
(***************************************************************************)
ValueChars == {"\\", "n", "x", "#", "\"", "'", " "}

AssignmentLines ==
    {<<"A", "=">> \o value : value \in SeqsUpTo(ValueChars, MaxValueLen)}

InitValue ==
    /\ text \in {<<line>> : line \in AssignmentLines}
    /\ envspec = <<>>
    /\ left = EmptySnapshot
    /\ right = EmptySnapshot
    /\ allow_extra = FALSE
    /\ report = EmptyValidationReport
    /\ diff_report = Returned(EmptyDiffReport)
    /\ data = None
    /\ outcome = None
    /\ pc = "ready"

SpecValue == InitValue /\ [][FromText]_vars

\* the text the pattern captures as the value of the one line of the text
CapturedValue == _ENV_LINE_RE(strip(text[1]))[1].value

\* the line is accepted: its value is not a quoted value left open
ValueAccepted == pc = "parsed" /\ NameA \in keys(left)

\* the characters that form an escape unit after a backslash, and the
\* character each unit denotes
Denoted(c) ==
    CASE c = "n" -> "\n"
      [] c = "r" -> "\r"
      [] c = "t" -> "\t"
      [] c \in {"\"", "'", "\\", "#"} -> c
      [] OTHER -> "none"

\* a value read unit by unit from the left, each escape unit replaced by
\* the character it denotes and every other unit kept
RECURSIVE UnitsReplaced(_)
UnitsReplaced(value) ==
    IF value = <<>> THEN <<>>
    ELSE IF value[1] # "\\" THEN <<value[1]>> \o UnitsReplaced(Tail(value))
    ELSE IF Len(value) = 1 THEN value
    ELSE IF Denoted(value[2]) # "none"
         THEN <<Denoted(value[2])>> \o UnitsReplaced(SubSeq(value, 3, Len(value)))
         ELSE SubSeq(value, 1, 2) \o UnitsReplaced(SubSeq(value, 3, Len(value)))

\* C11: the value stored for an accepted line, quoted or not, is the
\* accepted text with each escape unit replaced once by the character it
\* denotes, every other backslash unit and a lone trailing backslash kept.
C11_UnescapedOnce ==
    ValueAccepted =>
        left.values[NameA] = UnitsReplaced(_sanitize_value(CapturedValue)[1])

\* a quoted value holding backslash-backslash-n is stored as backslash-n
C11_Witness ==
    /\ ValueAccepted
    /\ CapturedValue = <<"\"", "\\", "\\", "n", "\"">>
    /\ left.values[NameA] = <<"\\", "n">>

\* the number of consecutive backslashes that end just before position i
BackslashRun(value, i) ==
    Cardinality({k \in 1..(i - 1) : \A j \in (i - k)..(i - 1) : value[j] = "\\"})

\* the character at position i is escaped
Escaped(value, i) == BackslashRun(value, i) % 2 = 1

\* the quote that is open when position i is read, "none" outside quotes
RECURSIVE QuoteAt(_, _)
QuoteAt(value, i) ==
    IF i = 1 THEN "none"
    ELSE IF Escaped(value, i - 1) \/ value[i - 1] \notin {"'", "\""}
         THEN QuoteAt(value, i - 1)
    ELSE IF QuoteAt(value, i - 1) = "none" THEN value[i - 1]
    ELSE IF QuoteAt(value, i - 1) = value[i - 1] THEN "none"
    ELSE QuoteAt(value, i - 1)

\* the positions of a `#` that is not escaped and outside quotes
CommentStarts(value) ==
    {i \in 1..Len(value) :
        value[i] = "#" /\ ~Escaped(value, i) /\ QuoteAt(value, i) = "none"}

\* the positions of a `#` outside quotes whose previous character is no
\* backslash
HashNotAfterBackslash(value) ==
    {i \in 1..Len(value) :
        /\ value[i] = "#"
        /\ (i = 1 \/ value[i - 1] # "\\")
        /\ QuoteAt(value, i) = "none"}

\* a value cut before the first of the given positions, then right-trimmed
CutAt(value, starts) ==
    IF starts = {} THEN rstrip(value)
    ELSE rstrip(SubSeq(value, 1, Minimum(starts) - 1))

Quoted(value) == value # <<>> /\ value[1] \in {"'", "\""}

\* the position of the quote that closes a quoted value
ClosingQuote(value) ==
    Minimum({i \in 2..Len(value) : value[i] = value[1] /\ ~Escaped(value, i)})

\* the text after the closing quote is blank or starts with `#`
OnlyCommentAfterQuote(value) ==
    LET after == strip(SubSeq(value, ClosingQuote(value) + 1, Len(value)))
    IN  after = <<>> \/ after[1] = "#"

\* C12 as stated: an unquoted value is cut at the first `#` that is outside
\* quotes and whose previous character is no backslash.
C12_CutAtHashNotAfterBackslash ==
    ValueAccepted /\ ~Quoted(CapturedValue) =>
        left.values[NameA]
            = UnitsReplaced(CutAt(CapturedValue, HashNotAfterBackslash(CapturedValue)))

\* C12: an unquoted value is cut at the first `#` that is neither escaped
\* (preceded by an odd number of backslashes) nor inside quotes, and
\* right-trimmed, so a quoted or escaped `#` stays, as a literal `#`; a
\* quoted value followed only by a `#` comment is the text inside the quotes.
C12_InlineComments ==
    ValueAccepted =>
        IF Quoted(CapturedValue)
        THEN OnlyCommentAfterQuote(CapturedValue) =>
                left.values[NameA]
                    = UnitsReplaced(SubSeq(CapturedValue, 2,
                                           ClosingQuote(CapturedValue) - 1))
        ELSE left.values[NameA]
                = UnitsReplaced(CutAt(CapturedValue, CommentStarts(CapturedValue)))

\* an unquoted value keeps a `#` that is escaped or inside quotes and loses
\* its comment
C12_Witness ==
    /\ ValueAccepted
    /\ ~Quoted(CapturedValue)
    /\ CommentStarts(CapturedValue) # {}
    /\ \E i \in 1..Len(left.values[NameA]) : left.values[NameA][i] = "#"

(***************************************************************************)
(* VariableSpec.from_dict on a declaration, then VariableSpec.validate of  *)
(* the variable it returns on raw values.                                  *)
(***************************************************************************)
\* a custom validator that raises ValueError("no ones") on the value 1
NoOnes == [rejects |-> {<<"1">>}, message |-> "no ones"]

\* declarations: every combination of a type, a default and constraints
VariableData ==
    [name : {NameA},
     type : {"string", "int", "bool"},
     required : {TRUE},
     default : {None, Some(<<"1">>), Some(<<"x">>), Some(<<>>)},
     secret : {FALSE},
     choices : {<<>>, <<<<"1">>, <<"x">>>>},
     pattern : {None, Some("[a-z]*")},
     allow_empty : BOOLEAN,
     min_length : {None, Some(2)},
     max_length : {None},
     min_value : {None, Some(2)},
     max_value : {None},
     validators : {<<>>, <<NoOnes>>}]

CheckedValues == {<<"1">>, <<"0">>, <<"x">>, <<"2", "2">>, <<"o", "n">>, <<>>}

InitVariable ==
    /\ text = <<>>
    /\ envspec = <<>>
    /\ left = EmptySnapshot
    /\ right = EmptySnapshot
    /\ allow_extra = FALSE
    /\ report = EmptyValidationReport
    /\ diff_report = Returned(EmptyDiffReport)
    /\ data \in VariableData
    /\ outcome = None
    /\ pc = "ready"

FromDict ==
    /\ pc = "ready"
    /\ outcome' = VariableSpec_from_dict(data)
    /\ envspec' = IF outcome'.ok THEN <<outcome'.value>> ELSE <<>>
    /\ pc' = IF outcome'.ok THEN "built" ELSE "rejected"
    /\ UNCHANGED <<text, left, right, allow_extra, report, diff_report, data>>

ValidateValue ==
    \E value \in CheckedValues :
        /\ pc = "built"
        /\ data' = value
        /\ outcome' = VariableSpec_validate(envspec[1], value)
        /\ pc' = "checked"
        /\ UNCHANGED <<text, envspec, left, right, allow_extra, report, diff_report>>

NextVariable == FromDict \/ ValidateValue

SpecVariable == InitVariable /\ [][NextVariable]_vars

\* the first result of a sequence of check results that is a failure, the
\* last result when none is
RECURSIVE FirstFailure(_)
FirstFailure(results) ==
    IF Len(results) = 1 \/ ~results[1].ok THEN results[1]
    ELSE FirstFailure(Tail(results))

\* type normalization, then the custom validators on the canonical value
TypeThenValidators(spec, value) ==
    IF ~normalize(spec.var_type, value).ok THEN normalize(spec.var_type, value)
    ELSE run_validators(spec.validators, 1, normalize(spec.var_type, value).value)

\* the checks on the canonical value, each taken alone, in the stated order
CanonicalChecks(spec, canonical) ==
    <<_validate_choices(spec, canonical), _validate_pattern(spec, canonical),
      _validate_length(spec, canonical), _validate_value_range(spec, canonical),
      Ok(canonical)>>

\* what validate is to return: the error of the earliest failing check, the
\* canonical value when no check fails
EarliestFailure(spec, value) ==
    IF ~_validate_not_empty(spec, value).ok THEN _validate_not_empty(spec, value)
    ELSE IF ~TypeThenValidators(spec, value).ok THEN TypeThenValidators(spec, value)
    ELSE FirstFailure(CanonicalChecks(spec, normalize(spec.var_type, value).value))

\* C13: VariableSpec.validate raises the error of the earliest failing check
\* in the order empty value, type and custom validators, choices, pattern,
\* length, numeric range, and returns the canonical value when none fails.
C13_EarliestCheckFails ==
    pc = "checked" => outcome = EarliestFailure(envspec[1], data)

\* the count of the checks on the canonical value that fail, taken alone
FailingChecks(spec, canonical) ==
    Cardinality({i \in 1..4 : ~CanonicalChecks(spec, canonical)[i].ok})

\* a value passes the empty and type checks and fails the choices, pattern,
\* length and range checks at once
C13_Witness ==
    /\ pc = "checked"
    /\ TypeThenValidators(envspec[1], data).ok
    /\ FailingChecks(envspec[1], normalize(envspec[1].var_type, data).value) = 4
    /\ ~outcome.ok

\* C14: from_dict raises the error of the validation of a declared default
\* that its own variable rejects, and returns the variable otherwise, so
\* the default of a variable that from_dict returned passes its validation.
C14_DefaultValidated ==
    /\ pc \in {"built", "rejected"} =>
          IF data.default = None THEN outcome = Ok(from_dict_instance(data))
          ELSE IF EarliestFailure(from_dict_instance(data), data.default[1]).ok
               THEN outcome = Ok(from_dict_instance(data))
               ELSE outcome = EarliestFailure(from_dict_instance(data), data.default[1])
    /\ \A k \in 1..Len(envspec) :
          envspec[k].default # None =>
              VariableSpec_validate(envspec[k], envspec[k].default[1]).ok

\* a declaration whose default is a valid int below its min_value is rejected
C14_Witness ==
    /\ pc = "rejected"
    /\ data.type = "int"
    /\ data.default = Some(<<"1">>)
    /\ data.min_value = Some(2)
    /\ data.choices = <<>> /\ data.pattern = None /\ data.validators = <<>>
    /\ data.min_length = None
    /\ outcome = Raise(<<"value must be at least ", 2>>)

\* ---------------------------------------------------------------------
\* spec.py: construction of an EnvSpec from its data, the name indexes
\* and the merge of imported specs
\* ---------------------------------------------------------------------

\* list(dict.fromkeys(values)): each value once, at its first position
RECURSIVE fromkeys(_)
fromkeys(values) ==
    IF values = <<>> THEN <<>>
    ELSE IF \E k \in 1..(Len(values) - 1) : values[k] = values[Len(values)]
         THEN fromkeys(SubSeq(values, 1, Len(values) - 1))
         ELSE Append(fromkeys(SubSeq(values, 1, Len(values) - 1)), values[Len(values)])

\* the values _assert_unique appends to duplicates: every occurrence of a
\* value after its first one, in order
duplicates(values) ==
    SelectSeq([i \in 1..Len(values) |->
                  IF \E k \in 1..(i - 1) : values[k] = values[i]
                  THEN Some(values[i]) ELSE None],
              LAMBDA found : found # None)

joined(values) ==
    join(<<",", " ">>, [i \in 1..Len(fromkeys(duplicates(values))) |->
                           fromkeys(duplicates(values))[i][1]])

_assert_unique_every_occurrence(values, entity) ==
    IF duplicates(values) # <<>>
    THEN Raise(<<"duplicate ", entity, " declared: ",
                 join(<<",", " ">>, [i \in 1..Len(duplicates(values)) |->
                                        duplicates(values)[i][1]])>>)
    ELSE Ok(None)

_assert_unique(values, entity) ==
    IF duplicates(values) # <<>>
    THEN Raise(<<"duplicate ", entity, " declared: ", joined(values)>>)
    ELSE Ok(None)

ProfileSpec(name, env_file) == [name |-> name, env_file |-> env_file]

ProfileSpec_from_dict(d) == ProfileSpec(d.name, d.env_file)

\* the names of a list of variables or profiles, in list order
names_of(items) == [i \in 1..Len(items) |-> items[i].name]

\* {item.name: item for item in items} as the pairs of the dict in
\* insertion order: a repeated name keeps its first position and takes the
\* last item
RECURSIVE by_name(_)
by_name(items) ==
    IF items = <<>> THEN <<>>
    ELSE IF \E k \in 1..(Len(items) - 1) : items[k].name = items[Len(items)].name
         THEN [i \in 1..Len(by_name(SubSeq(items, 1, Len(items) - 1))) |->
                  IF by_name(SubSeq(items, 1, Len(items) - 1))[i][1] = items[Len(items)].name
                  THEN <<items[Len(items)].name, items[Len(items)]>>
                  ELSE by_name(SubSeq(items, 1, Len(items) - 1))[i]]
         ELSE Append(by_name(SubSeq(items, 1, Len(items) - 1)),
                     <<items[Len(items)].name, items[Len(items)]>>)

_rebuild_caches(spec) ==
    [spec EXCEPT !._variable_cache = by_name(spec.variables),
                 !._profile_cache = by_name(spec.profiles),
                 !._variable_names = names_of(spec.variables),
                 !._profile_names = names_of(spec.profiles)]

\* EnvSpec(...): the dataclass constructor, whose __post_init__ builds the
\* name indexes
EnvSpec(variables, profiles, imports) ==
    _rebuild_caches([variables |-> variables, profiles |-> profiles,
                     imports |-> imports,
                     _variable_cache |-> <<>>, _profile_cache |-> <<>>,
                     _variable_names |-> <<>>, _profile_names |-> <<>>])

variable_map(spec) == spec._variable_cache

profiles_by_name(spec) == spec._profile_cache

\* the items of from_dict with the validators of the spec put before their
\* own
processed_variables_data(d) ==
    [i \in 1..Len(d.variables) |->
        [d.variables[i] EXCEPT !.validators = d.validators \o @]]

\* [VariableSpec.from_dict(item) for item in items]: the first item that
\* raises ends the construction
RECURSIVE variables_from(_)
variables_from(items) ==
    IF items = <<>> THEN Ok(<<>>)
    ELSE IF ~VariableSpec_from_dict(items[1]).ok THEN VariableSpec_from_dict(items[1])
    ELSE IF ~variables_from(Tail(items)).ok THEN variables_from(Tail(items))
    ELSE Ok(<<VariableSpec_from_dict(items[1]).value>> \o variables_from(Tail(items)).value)

profiles_from(items) == [i \in 1..Len(items) |-> ProfileSpec_from_dict(items[i])]

EnvSpec_from_dict(d) ==
    IF ~variables_from(processed_variables_data(d)).ok
    THEN variables_from(processed_variables_data(d))
    ELSE IF ~_assert_unique(names_of(variables_from(processed_variables_data(d)).value),
                            "variable").ok
    THEN _assert_unique(names_of(variables_from(processed_variables_data(d)).value),
                        "variable")
    ELSE IF ~_assert_unique(names_of(profiles_from(d.profiles)), "profile").ok
    THEN _assert_unique(names_of(profiles_from(d.profiles)), "profile")
    ELSE Ok(EnvSpec(variables_from(processed_variables_data(d)).value,
                    profiles_from(d.profiles), d.imports))

\* EnvSpec.from_file: the file system is a function from paths to the data
\* of the spec files; reading a path that is no file raises
EnvSpec_from_file(files, path) ==
    IF path \notin DOMAIN files
    THEN Raise(<<"No such file or directory: ", path>>)
    ELSE EnvSpec_from_dict(files[path])

\* the items of other whose names are not among those of mine, in order
unseen(mine, other) ==
    SelectSeq(other, LAMBDA item : \A k \in 1..Len(mine) : mine[k].name # item.name)

_merge_spec_appending_all(spec, other) ==
    [spec EXCEPT !.variables = @ \o other.variables,
                 !.profiles = @ \o other.profiles]

_merge_spec(spec, other) ==
    [spec EXCEPT !.variables = @ \o unseen(@, other.variables),
                 !.profiles = @ \o unseen(@, other.profiles)]

\* the result of a call of load_imports: the object as the call left it
\* and the exception it raised, if any
Loaded(spec) == [spec |-> spec, raised |-> FALSE, message |-> <<>>]

LoadFailed(spec, message) == [spec |-> spec, raised |-> TRUE, message |-> message]

\* load_imports(spec): the imports are read, loaded and merged one after
\* the other; an exception leaves the loop with what was merged so far and
\* the indexes are rebuilt after the loop only
RECURSIVE load_imports(_, _)
RECURSIVE load_imports_from(_, _, _)
RECURSIVE load_imported(_, _, _, _)
RECURSIVE merge_loaded(_, _, _, _)

merge_loaded(spec, files, idx, loaded) ==
    IF loaded.raised THEN LoadFailed(spec, loaded.message)
    ELSE load_imports_from(_merge_spec(spec, loaded.spec), files, idx + 1)

load_imported(spec, files, idx, imported_spec) ==
    IF ~imported_spec.ok THEN LoadFailed(spec, imported_spec.message)
    ELSE merge_loaded(spec, files, idx, load_imports(imported_spec.value, files))

load_imports_from(spec, files, idx) ==
    IF idx > Len(spec.imports) THEN Loaded(_rebuild_caches(spec))
    ELSE load_imported(spec, files, idx, EnvSpec_from_file(files, spec.imports[idx]))

load_imports(spec, files) ==
    IF spec.imports = <<>> THEN Loaded(spec)
    ELSE load_imports_from(spec, files, 1)

\* ---------------------------------------------------------------------
\* Construction and imports: a main spec file is read, its imports are
\* loaded, and an item is assigned through one of the name views
\* ---------------------------------------------------------------------

MaxLoads == 2

NameC == <<"C">>

VariableItem(name, type, default) ==
    [name |-> name, type |-> type, required |-> TRUE, default |-> default,
     secret |-> FALSE, choices |-> <<>>, pattern |-> None, allow_empty |-> FALSE,
     min_length |-> None, max_length |-> None, min_value |-> None,
     max_value |-> None, validators |-> <<>>]

ProfileItem(name, env_file) == [name |-> name, env_file |-> env_file]

SpecData(variables, profiles, imports) ==
    [variables |-> variables, profiles |-> profiles, imports |-> imports,
     validators |-> <<>>]

MainVariables ==
    {<<VariableItem(NameA, "int", None)>>,
     <<VariableItem(NameA, "int", None), VariableItem(NameB, "int", None)>>,
     <<VariableItem(NameA, "int", None), VariableItem(NameA, "string", None)>>,
     <<VariableItem(NameA, "int", None), VariableItem(NameB, "int", None),
       VariableItem(NameB, "int", None), VariableItem(NameA, "int", None),
       VariableItem(NameB, "int", None)>>,
     <<VariableItem(NameA, "int", None), VariableItem(NameB, "int", Some(<<"x">>))>>,
     <<VariableItem(NameA, "int", None), VariableItem(NameA, "int", None),
       VariableItem(NameB, "int", Some(<<"x">>))>>}

MainProfiles ==
    {<<>>,
     <<ProfileItem(<<"p">>, ".env")>>,
     <<ProfileItem(<<"p">>, ".env"), ProfileItem(<<"p">>, ".env.b")>>,
     <<ProfileItem(<<"p">>, ".env"), ProfileItem(<<"q">>, ".env.q"),
       ProfileItem(<<"q">>, ".env.q"), ProfileItem(<<"p">>, ".env")>>}

MainImports ==
    {<<>>, <<"b">>, <<"b", "c">>, <<"c", "b">>, <<"b", "missing">>, <<"missing", "b">>}

ImportedB ==
    {SpecData(variables, profiles, imports) :
        variables \in {<<VariableItem(NameB, "string", None)>>,
                       <<VariableItem(NameA, "string", None),
                         VariableItem(NameB, "string", None)>>,
                       <<VariableItem(NameB, "string", None),
                         VariableItem(NameB, "int", None)>>},
        profiles \in {<<ProfileItem(<<"q">>, ".env.b")>>,
                      <<ProfileItem(<<"p">>, ".env.b")>>},
        imports \in {<<>>, <<"d">>}}

ImportedC ==
    {SpecData(<<VariableItem(NameC, "int", None), VariableItem(NameB, "bool", None)>>,
              <<>>, imports) : imports \in {<<>>, <<"d">>}}

ImportedD ==
    SpecData(<<VariableItem(Namea, "bool", None), VariableItem(NameA, "bool", None)>>,
             <<ProfileItem(<<"q">>, ".env.d")>>, <<>>)

\* the spec files: main and the files b, c and d it may import; no file is
\* at the path missing
SpecFiles ==
    {[path \in {"main", "b", "c", "d"} |->
         CASE path = "main" -> SpecData(variables, profiles, imports)
           [] path = "b" -> b
           [] path = "c" -> c
           [] path = "d" -> ImportedD] :
        variables \in MainVariables, profiles \in MainProfiles,
        imports \in MainImports, b \in ImportedB, c \in ImportedC}

InitImports ==
    /\ text = <<>>
    /\ envspec = <<>>
    /\ left = EmptySnapshot
    /\ right = EmptySnapshot
    /\ allow_extra = FALSE
    /\ report = EmptyValidationReport
    /\ diff_report = Returned(EmptyDiffReport)
    /\ data \in SpecFiles
    /\ outcome = None
    /\ pc = "ready"

\* what a constructor or load_imports call left: the spec object, if there
\* is one, the exception of the last call, and the number of load_imports
\* calls so far
Constructed(built) ==
    [spec |-> IF built.ok THEN Some(built.value) ELSE None,
     error |-> IF built.ok THEN None ELSE Some(built.message),
     loads |-> 0]

AfterLoad(result, loads) ==
    [spec |-> Some(result.spec),
     error |-> IF result.raised THEN Some(result.message) ELSE None,
     loads |-> loads + 1]

FromFile ==
    /\ pc = "ready"
    /\ outcome' = Constructed(EnvSpec_from_file(data, "main"))
    /\ pc' = IF outcome'.spec # None THEN "constructed" ELSE "rejected"
    /\ UNCHANGED <<text, envspec, left, right, allow_extra, report, diff_report, data>>

LoadImports ==
    /\ pc \in {"constructed", "loaded", "load_raised", "assigned"}
    /\ outcome.loads < MaxLoads
    /\ outcome' = AfterLoad(load_imports(outcome.spec[1], data), outcome.loads)
    /\ pc' = IF outcome'.error = None THEN "loaded" ELSE "load_raised"
    /\ UNCHANGED <<text, envspec, left, right, allow_extra, report, diff_report, data>>

\* variable_map()[name] = item or profiles_by_name()[name] = item: the
\* views are mapping proxies, whose item assignment raises TypeError
SetItem ==
    /\ pc \in {"constructed", "loaded", "load_raised"}
    /\ outcome' = [outcome EXCEPT
                      !.error = Some(<<"'mappingproxy' object does not support item assignment">>)]
    /\ pc' = "assigned"
    /\ UNCHANGED <<text, envspec, left, right, allow_extra, report, diff_report, data>>

NextImports == FromFile \/ LoadImports \/ SetItem

SpecImports == InitImports /\ [][NextImports]_vars

\* the names of a list that occur again later in it, each at the place of
\* its second occurrence
RepeatedNames(names) ==
    SelectSeq([i \in 1..Len(names) |->
                  IF Cardinality({k \in 1..(i - 1) : names[k] = names[i]}) = 1
                  THEN Some(names[i]) ELSE None],
              LAMBDA found : found # None)

NamesOfItems(items) == [i \in 1..Len(items) |-> items[i].name]

\* the text that names each name of a list once, separated by ", "
RECURSIVE Listed(_)
Listed(found) ==
    IF found = <<>> THEN <<>>
    ELSE IF Len(found) = 1 THEN found[1][1]
    ELSE found[1][1] \o <<",", " ">> \o Listed(Tail(found))

EveryDefaultValid(items) ==
    \A i \in 1..Len(items) : VariableSpec_from_dict(items[i]).ok

RECURSIVE DepthFirst(_, _, _)
RECURSIVE DepthFirstOver(_, _, _, _)
DepthFirst(files, path, field) ==
    files[path][field] \o DepthFirstOver(files, files[path].imports, 1, field)

DepthFirstOver(files, imports, idx, field) ==
    IF idx > Len(imports) THEN <<>>
    ELSE DepthFirst(files, imports[idx], field)
         \o DepthFirstOver(files, imports, idx + 1, field)

\* the items of a list whose name no earlier item has
FirstOfEachName(items) ==
    SelectSeq([i \in 1..Len(items) |->
                  IF \E k \in 1..(i - 1) : items[k].name = items[i].name
                  THEN None ELSE Some(items[i])],
              LAMBDA kept : kept # None)

Unwrapped(found) == [i \in 1..Len(found) |-> found[i][1]]

\* C16: after a load_imports that returned, the variables and the profiles
\* of the spec are its own followed by those of its imports in depth-first
\* import order, each name once and with the first definition met in that
\* order: a local definition wins over an imported one, an earlier import
\* over a later one, and a file imported along two paths adds nothing the
\* second time.
C16_FirstDefinitionWins ==
    pc = "loaded" =>
        /\ outcome.spec[1].variables =
              [i \in 1..Len(FirstOfEachName(DepthFirst(data, "main", "variables"))) |->
                  from_dict_instance(
                      FirstOfEachName(DepthFirst(data, "main", "variables"))[i][1])]
        /\ outcome.spec[1].profiles =
              Unwrapped(FirstOfEachName(DepthFirst(data, "main", "profiles")))
        /\ \A i, k \in 1..Len(outcome.spec[1].variables) :
              outcome.spec[1].variables[i].name = outcome.spec[1].variables[k].name
                  => i = k

\* main declares A, imports b and c, which both import d and declare B:
\* A stays the int of main, B is the string of b, and the a of d comes
\* once, before the C of c
C16_Witness ==
    /\ pc = "loaded"
    /\ data["main"].imports = <<"b", "c">>
    /\ data["b"].imports = <<"d">>
    /\ data["c"].imports = <<"d">>
    /\ NamesOfItems(data["b"].variables) = <<NameA, NameB>>
    /\ NamesOfItems(outcome.spec[1].variables) = <<NameA, NameB, Namea, NameC>>
    /\ outcome.spec[1].variables[1].var_type = "int"
    /\ outcome.spec[1].variables[2].var_type = "string"

\* C17: in every state that construction and load_imports calls reach,
\* variable_map() and profiles_by_name() have exactly the names of the
\* variables and profiles lists as keys, in list order, and the cached
\* name tuples are those names.
C17_ViewsMatchLists ==
    (outcome # None /\ outcome.spec # None) =>
        /\ NamesOfItems([i \in 1..Len(variable_map(outcome.spec[1])) |->
                            variable_map(outcome.spec[1])[i][2]])
              = NamesOfItems(outcome.spec[1].variables)
        /\ [i \in 1..Len(variable_map(outcome.spec[1])) |->
                variable_map(outcome.spec[1])[i][1]]
              = NamesOfItems(outcome.spec[1].variables)
        /\ outcome.spec[1]._variable_names = NamesOfItems(outcome.spec[1].variables)
        /\ [i \in 1..Len(profiles_by_name(outcome.spec[1])) |->
                profiles_by_name(outcome.spec[1])[i][1]]
              = NamesOfItems(outcome.spec[1].profiles)
        /\ outcome.spec[1]._profile_names = NamesOfItems(outcome.spec[1].profiles)

\* the variables with the secret flag of those at the places in flipped
\* inverted
SecretFlipped(variables, flipped) ==
    [i \in 1..Len(variables) |->
        IF i \in flipped THEN [variables[i] EXCEPT !.secret = ~@] ELSE variables[i]]

\* the entries of a report without their secret field
Compared(entries) ==
    [i \in 1..Len(entries) |->
        [variable |-> entries[i].variable, kind |-> entries[i].kind,
         left |-> entries[i].left, right |-> entries[i].right]]

\* the secret flag the variables give the name of an entry, FALSE for a
\* name they do not declare
DeclaredSecret(variables, name) ==
    \E i \in 1..Len(variables) : variables[i].name = name /\ variables[i].secret

\* C18: whatever variables of the spec have their secret flag inverted,
\* diff on the same snapshots raises the same error or returns the same
\* entries in the same order up to the secret field, which is the flag of
\* the entry's variable.
C18_SecretNeverCompared ==
    pc \in {"diffed", "diff_raised"} =>
        \A flipped \in SUBSET (1..Len(envspec)) :
            LET other == diff(SecretFlipped(envspec, flipped), left, right)
            IN  IF diff_report.raised THEN other = diff_report
                ELSE /\ ~other.raised
                     /\ Compared(other.report.entries) = Compared(diff_report.report.entries)
                     /\ \A i \in 1..Len(other.report.entries) :
                           /\ other.report.entries[i].secret =
                                 DeclaredSecret(SecretFlipped(envspec, flipped),
                                                other.report.entries[i].variable)
                           /\ diff_report.report.entries[i].secret =
                                 DeclaredSecret(envspec, diff_report.report.entries[i].variable)

\* a secret variable whose two values differ has a changed entry that
\* holds both values
C18_Witness ==
    /\ pc = "diffed"
    /\ \E i \in 1..Len(diff_report.report.entries) :
          /\ diff_report.report.entries[i].secret
          /\ diff_report.report.entries[i].kind = CHANGED
          /\ diff_report.report.entries[i].left = get(left, diff_report.report.entries[i].variable)
          /\ diff_report.report.entries[i].right = get(right, diff_report.report.entries[i].variable)
          /\ diff_report.report.entries[i].left # diff_report.report.entries[i].right

\* ---------------------------------------------------------------------
\* report.py: the redacted accessors and the dict of a DiffEntry
\* ---------------------------------------------------------------------

Mask == <<"*", "*", "*">>

_redact(value) == IF value = None THEN None ELSE Some(Mask)

redacted_left(entry) == IF entry.secret THEN _redact(entry.left) ELSE entry.left

redacted_right_as_stored(entry) == entry.right

redacted_right(entry) == IF entry.secret THEN _redact(entry.right) ELSE entry.right

DiffEntry_to_dict(entry) ==
    [variable |-> entry.variable,
     kind |-> entry.kind,
     left |-> redacted_left(entry),
     right |-> redacted_right(entry),
     secret |-> entry.secret]

\* entries of every kind with each side absent, a value or the text of
\* the mask itself
EntryValues == {None, Some(<<"1">>), Some(<<"x">>), Some(Mask)}

DiffEntries ==
    {DiffEntry(variable, kind, l, r, secret) :
        variable \in {NameA, Namea}, kind \in DiffKind,
        l \in EntryValues, r \in EntryValues, secret \in BOOLEAN}

InitEntry ==
    /\ text = <<>>
    /\ envspec = <<>>
    /\ left = EmptySnapshot
    /\ right = EmptySnapshot
    /\ allow_extra = FALSE
    /\ report = EmptyValidationReport
    /\ diff_report = Returned(EmptyDiffReport)
    /\ data \in DiffEntries
    /\ outcome = None
    /\ pc = "ready"

\* the three renderings of the entry are taken
Render ==
    /\ pc = "ready"
    /\ outcome' = [redacted_left |-> redacted_left(data),
                   redacted_right |-> redacted_right(data),
                   to_dict |-> DiffEntry_to_dict(data)]
    /\ pc' = "rendered"
    /\ UNCHANGED <<text, envspec, left, right, allow_extra, report, diff_report, data>>

SpecEntry == InitEntry /\ [][Render]_vars

\* what the accessors and the dict give for the two sides
RenderedSides ==
    {outcome.redacted_left, outcome.redacted_right,
     outcome.to_dict.left, outcome.to_dict.right}

\* C19 as stated: every rendering of either side of a secret entry is the
\* mask, whatever the entry holds, its kind is the stored one, and an
\* entry that is not secret renders what it holds.
C19_SecretAlwaysMasked ==
    pc = "rendered" =>
        /\ outcome.to_dict.kind = data.kind
        /\ data.secret => RenderedSides = {Some(Mask)}
        /\ ~data.secret =>
              /\ outcome.redacted_left = data.left /\ outcome.to_dict.left = data.left
              /\ outcome.redacted_right = data.right /\ outcome.to_dict.right = data.right

\* C19: every rendering of a side of a secret entry that holds a value is
\* the mask, whatever the value, and that of a side that holds none is
\* None; the kind, the variable and the flag are the stored ones; an entry
\* that is not secret renders what it holds.
C19_SecretMaskedWherePresent ==
    pc = "rendered" =>
        /\ outcome.to_dict.kind = data.kind
        /\ outcome.to_dict.variable = data.variable
        /\ outcome.to_dict.secret = data.secret
        /\ outcome.redacted_left = outcome.to_dict.left
        /\ outcome.redacted_right = outcome.to_dict.right
        /\ data.secret =>
              /\ outcome.redacted_left = (IF data.left = None THEN None ELSE Some(Mask))
              /\ outcome.redacted_right = (IF data.right = None THEN None ELSE Some(Mask))
        /\ ~data.secret =>
              /\ outcome.redacted_left = data.left
              /\ outcome.redacted_right = data.right

\* a secret missing entry renders the mask for the value of its left side
\* and no right side
C19_Witness ==
    /\ pc = "rendered"
    /\ data.secret
    /\ data.kind = MISSING
    /\ data.left = Some(<<"x">>) /\ data.right = None
    /\ outcome.redacted_left = Some(Mask) /\ outcome.redacted_right = None
    /\ outcome.to_dict.left = Some(Mask) /\ outcome.to_dict.right = None

\* ---------------------------------------------------------------------
\* report.py: the memoized queries of ValidationReport
\* ---------------------------------------------------------------------

\* the value a memoizing query works with: the cached one when there is
\* one, the computed one otherwise
memo(cache, computed) == IF cache # None THEN cache[1] ELSE computed

\* the same for a cache keyed by a severity, a code or a variable
memo_at(cache, key, computed) == IF key \in DOMAIN cache THEN cache[key] ELSE computed

\* sequence[:limit]
slice(sequence, limit) ==
    IF limit >= 0
    THEN SubSeq(sequence, 1, IF limit < Len(sequence) THEN limit ELSE Len(sequence))
    ELSE SubSeq(sequence, 1, IF Len(sequence) + limit > 0 THEN Len(sequence) + limit ELSE 0)

\* the codes and the fixed texts of messages and hints in ascending order
\* of their characters, which is how Python compares them
CodeOrder ==
    <<"backend_error", "custom", "duplicate", "extra", "invalid", "invalid_line",
      "missing">>

TextOrder ==
    <<"Add it to envkeep.toml or remove it from the environment.",
      "Declare it in the environment or provide a default.",
      "Remove duplicate assignments to keep configuration deterministic.",
      "Review the syntax: ",
      "line could not be parsed",
      "missing required variable",
      "note",
      "variable declared multiple times",
      "variable not declared in spec">>

code_less(a, b) == IndexOf(CodeOrder, a) < IndexOf(CodeOrder, b)

\* the order of two messages or hints: by their fixed text, then by the
\* text quoted after it; no hint counts as the empty string
message_less(a, b) ==
    IF a = <<>> THEN b # <<>>
    ELSE IF b = <<>> THEN FALSE
    ELSE IF a[1] # b[1] THEN IndexOf(TextOrder, a[1]) < IndexOf(TextOrder, b[1])
    ELSE IF Len(a) = 1 THEN Len(b) > 1
    ELSE IF Len(b) = 1 THEN FALSE
    ELSE str_less(a[2], b[2])

\* _issue_sort_key(a) < _issue_sort_key(b)
_issue_sort_key_less(a, b) ==
    IF casefold(a.variable) # casefold(b.variable)
    THEN str_less(casefold(a.variable), casefold(b.variable))
    ELSE IF a.variable # b.variable THEN str_less(a.variable, b.variable)
    ELSE IF a.code # b.code THEN code_less(a.code, b.code)
    ELSE IF a.message # b.message THEN message_less(a.message, b.message)
    ELSE message_less(a.hint, b.hint)

insert_at(sequence, k, item) ==
    SubSeq(sequence, 1, k) \o <<item>> \o SubSeq(sequence, k + 1, Len(sequence))

\* sorted(bucket, key=_issue_sort_key): issues with the same key keep the
\* order of the bucket
RECURSIVE sorted_issues(_)
sorted_issues(bucket) ==
    IF bucket = <<>> THEN <<>>
    ELSE insert_at(sorted_issues(SubSeq(bucket, 1, Len(bucket) - 1)),
                   Cardinality({i \in 1..(Len(bucket) - 1) :
                       ~_issue_sort_key_less(bucket[Len(bucket)], bucket[i])}),
                   bucket[Len(bucket)])

\* sorted(counter.items(), key=lambda item: (-item[1], item[0])) of a
\* counter of variables
RECURSIVE ranked_variables(_, _)
ranked_variables(counts, names) ==
    IF names = {} THEN <<>>
    ELSE LET first == CHOOSE x \in names : \A y \in names \ {x} :
                 \/ counts[x] > counts[y]
                 \/ counts[x] = counts[y] /\ str_less(x, y)
         IN  <<<<first, counts[first]>>>> \o ranked_variables(counts, names \ {first})

\* the same of the counter of codes
RECURSIVE ranked_codes(_, _)
ranked_codes(counts, codes) ==
    IF codes = {} THEN <<>>
    ELSE LET first == CHOOSE x \in codes : \A y \in codes \ {x} :
                 \/ counts[x] > counts[y]
                 \/ counts[x] = counts[y] /\ code_less(x, y)
         IN  <<<<first, counts[first]>>>> \o ranked_codes(counts, codes \ {first})

\* sorted(codes)
RECURSIVE sorted_codes(_)
sorted_codes(codes) ==
    IF codes = {} THEN <<>>
    ELSE LET first == CHOOSE x \in codes : \A y \in codes \ {x} : code_less(x, y)
         IN  <<first>> \o sorted_codes(codes \ {first})

\* tuple(sorted(self._code_counts.items()))
code_items(counts) ==
    [i \in 1..Len(sorted_codes(DOMAIN counts)) |->
        <<sorted_codes(DOMAIN counts)[i], counts[sorted_codes(DOMAIN counts)[i]]>>]

\* dict(items)
dict_of_items(items) ==
    [key \in {items[i][1] : i \in 1..Len(items)} |->
        items[CHOOSE i \in 1..Len(items) : items[i][1] = key][2]]

\* counts_by_code(): the read-only mapping, and the report after the call
counts_by_code(rep) ==
    memo(rep._counts_by_code_mapping,
         dict_of_items(memo(rep._counts_by_code_cache, code_items(rep._code_counts))))

counts_by_code_memo(rep) ==
    IF rep._counts_by_code_mapping # None THEN rep
    ELSE [rep EXCEPT
             !._counts_by_code_cache = Some(memo(@, code_items(rep._code_counts))),
             !._counts_by_code_mapping =
                 Some(dict_of_items(memo(rep._counts_by_code_cache,
                                         code_items(rep._code_counts))))]

most_common_codes(rep, limit) ==
    IF limit # None
    THEN slice(memo(rep._most_common_codes_cache,
                    ranked_codes(rep._code_counts, DOMAIN rep._code_counts)), limit[1])
    ELSE memo(rep._most_common_codes_cache,
              ranked_codes(rep._code_counts, DOMAIN rep._code_counts))

most_common_codes_memo(rep) ==
    [rep EXCEPT !._most_common_codes_cache =
        Some(memo(@, ranked_codes(rep._code_counts, DOMAIN rep._code_counts)))]

ValidationReport_codes(rep) == sorted_codes(DOMAIN rep._code_counts)

ValidationReport_variables(rep) ==
    memo(rep._variables_cache, casefold_sorted(DOMAIN rep._variable_counts))

ValidationReport_variables_memo(rep) ==
    [rep EXCEPT !._variables_cache =
        Some(memo(@, casefold_sorted(DOMAIN rep._variable_counts)))]

_sorted_variable_bucket(rep, variable) ==
    memo_at(rep._sorted_variable_cache, variable,
            IF variable \in DOMAIN rep._variable_buckets
            THEN sorted_issues(rep._variable_buckets[variable]) ELSE <<>>)

_sorted_variable_bucket_memo(rep, variable) ==
    [rep EXCEPT !._sorted_variable_cache =
        dict_set(@, variable, _sorted_variable_bucket(rep, variable))]

issues_for(rep, variable) == _sorted_variable_bucket(rep, variable)

_sorted_code_bucket(rep, code) ==
    memo_at(rep._sorted_code_cache, code,
            IF code \in DOMAIN rep._code_buckets
            THEN sorted_issues(rep._code_buckets[code]) ELSE <<>>)

_sorted_code_bucket_memo(rep, code) ==
    [rep EXCEPT !._sorted_code_cache = dict_set(@, code, _sorted_code_bucket(rep, code))]

issues_by_code(rep, code) == _sorted_code_bucket(rep, code)

issues_by_severity(rep, severity) ==
    memo_at(rep._sorted_severity_cache, severity,
            sorted_issues(rep._severity_buckets[severity]))

issues_by_severity_memo(rep, severity) ==
    [rep EXCEPT !._sorted_severity_cache =
        dict_set(@, severity, issues_by_severity(rep, severity))]

_variables_for_severity(rep, severity) ==
    memo_at(rep._severity_variable_cache, severity,
            casefold_sorted(rep._severity_variables[severity]))

\* the report after _variables_for_severity was called for every severity
_variables_for_severity_memo(rep) ==
    [rep EXCEPT !._severity_variable_cache =
        [severity \in IssueSeverity |-> _variables_for_severity(rep, severity)]]

variables_by_severity(rep) ==
    memo(rep._variables_by_severity_cache,
         [severity \in IssueSeverity |-> _variables_for_severity(rep, severity)])

variables_by_severity_memo(rep) ==
    IF rep._variables_by_severity_cache # None THEN rep
    ELSE [_variables_for_severity_memo(rep) EXCEPT !._variables_by_severity_cache =
             Some([severity \in IssueSeverity |-> _variables_for_severity(rep, severity)])]

top_variables(rep, limit) ==
    IF limit = None
    THEN memo(rep._top_variables_cache,
              ranked_variables(rep._variable_counts, DOMAIN rep._variable_counts))
    ELSE IF limit[1] = 0 THEN <<>>
    ELSE slice(memo(rep._top_variables_cache,
                    ranked_variables(rep._variable_counts, DOMAIN rep._variable_counts)),
               limit[1])

top_variables_memo(rep) ==
    [rep EXCEPT !._top_variables_cache =
        Some(memo(@, ranked_variables(rep._variable_counts, DOMAIN rep._variable_counts)))]

\* sorted(set(values), key=lambda item: (item.casefold(), item)) of the
\* variables of issues
_casefold_sorted(issues) ==
    casefold_sorted({issues[i].variable : i \in 1..Len(issues)})

\* the number _invalid_line_sort_key reads in a label: its digits, 0 when
\* it has none
line_number(value) ==
    digits_value(SelectSeq(value, LAMBDA char : char \in Digits), 0)

_invalid_line_sort_key_less(a, b) ==
    \/ line_number(a) < line_number(b)
    \/ line_number(a) = line_number(b) /\ str_less(a, b)

\* (issue.variable, issue.hint or issue.message) of the invalid_line
\* issues, sorted by the key of the label
RECURSIVE sorted_invalid_lines(_)
sorted_invalid_lines(issues) ==
    IF issues = <<>> THEN <<>>
    ELSE insert_at(sorted_invalid_lines(SubSeq(issues, 1, Len(issues) - 1)),
                   Cardinality({i \in 1..(Len(issues) - 1) :
                       ~_invalid_line_sort_key_less(issues[Len(issues)].variable,
                                                    issues[i].variable)}),
                   <<issues[Len(issues)].variable,
                     IF issues[Len(issues)].hint # None THEN issues[Len(issues)].hint
                     ELSE issues[Len(issues)].message>>)

\* the tuple warning_summary memoizes
warning_summary_tuple(rep) ==
    memo(rep._warning_summary_cache,
         <<warning_count(rep),
           _casefold_sorted(_sorted_code_bucket(rep, "duplicate")),
           _casefold_sorted(_sorted_code_bucket(rep, "extra")),
           sorted_invalid_lines(_sorted_code_bucket(rep, "invalid_line"))>>)

warning_summary(rep) ==
    [total |-> warning_summary_tuple(rep)[1],
     duplicates |-> warning_summary_tuple(rep)[2],
     extra_variables |-> warning_summary_tuple(rep)[3],
     invalid_lines |->
        [i \in 1..Len(warning_summary_tuple(rep)[4]) |->
            [line |-> warning_summary_tuple(rep)[4][i][1],
             hint |-> warning_summary_tuple(rep)[4][i][2]]]]

warning_summary_memo(rep) ==
    IF rep._warning_summary_cache # None THEN rep
    ELSE [_sorted_code_bucket_memo(
              _sorted_code_bucket_memo(
                  _sorted_code_bucket_memo(rep, "duplicate"), "extra"), "invalid_line")
          EXCEPT !._warning_summary_cache = Some(warning_summary_tuple(rep))]

\* utils.normalized_limit
normalized_limit(limit) ==
    IF limit = None THEN None ELSE IF limit[1] > 0 THEN limit ELSE Some(0)

\* ---------------------------------------------------------------------
\* report.py: the memoized queries of DiffReport
\* ---------------------------------------------------------------------

_kind_order == <<MISSING, EXTRA, CHANGED>>

change_count(rep) == Len(rep.entries)

count_for(rep, kind) == counter_get(rep._counts, kind)

has_kind(rep, kind) == count_for(rep, kind) > 0

non_empty_kinds(rep) == SelectSeq(_kind_order, LAMBDA kind : has_kind(rep, kind))

\* the key of sorted_entries: the place of the kind, then the name
entry_key_less(a, b) ==
    IF a.kind # b.kind THEN IndexOf(_kind_order, a.kind) < IndexOf(_kind_order, b.kind)
    ELSE a.variable # b.variable /\ sort_key_less(a.variable, b.variable)

\* sorted(entries, key=...): entries with the same key keep their order
RECURSIVE sorted_by_entry_key(_)
sorted_by_entry_key(entries) ==
    IF entries = <<>> THEN <<>>
    ELSE insert_at(sorted_by_entry_key(SubSeq(entries, 1, Len(entries) - 1)),
                   Cardinality({i \in 1..(Len(entries) - 1) :
                       ~entry_key_less(entries[Len(entries)], entries[i])}),
                   entries[Len(entries)])

sorted_entries(rep) == memo(rep._sorted_entries_cache, sorted_by_entry_key(rep.entries))

sorted_entries_memo(rep) ==
    [rep EXCEPT !._sorted_entries_cache = Some(memo(@, sorted_by_entry_key(rep.entries)))]

\* the entries of a bucket are of one kind, so the key of sorted_entries
\* orders them by name as the key of entries_by_kind does
entries_by_kind(rep, kind) ==
    memo_at(rep._sorted_kind_cache, kind, sorted_by_entry_key(rep._kind_buckets[kind]))

entries_by_kind_memo(rep, kind) ==
    [rep EXCEPT !._sorted_kind_cache = dict_set(@, kind, entries_by_kind(rep, kind))]

DiffReport_variables(rep) ==
    memo(rep._variables_cache, casefold_sorted(DOMAIN rep._variable_counts))

DiffReport_variables_memo(rep) ==
    [rep EXCEPT !._variables_cache =
        Some(memo(@, casefold_sorted(DOMAIN rep._variable_counts)))]

DiffReport_top_variables(rep, limit) ==
    IF limit = None
    THEN memo(rep._top_variables_cache,
              ranked_variables(rep._variable_counts, DOMAIN rep._variable_counts))
    ELSE IF limit[1] = 0 THEN <<>>
    ELSE slice(memo(rep._top_variables_cache,
                    ranked_variables(rep._variable_counts, DOMAIN rep._variable_counts)),
               limit[1])

DiffReport_top_variables_memo(rep) ==
    [rep EXCEPT !._top_variables_cache =
        Some(memo(@, ranked_variables(rep._variable_counts, DOMAIN rep._variable_counts)))]

variables_by_kind(rep) ==
    memo(rep._variables_by_kind_cache,
         [kind \in DiffKind |->
             casefold_sorted({rep._kind_buckets[kind][i].variable :
                                 i \in 1..Len(rep._kind_buckets[kind])})])

variables_by_kind_memo(rep) ==
    [rep EXCEPT !._variables_by_kind_cache = Some(variables_by_kind(rep))]

counts_by_kind(rep) ==
    memo(rep._counts_by_kind_mapping, [kind \in DiffKind |-> count_for(rep, kind)])

counts_by_kind_memo(rep) ==
    [rep EXCEPT !._counts_by_kind_mapping = Some(counts_by_kind(rep))]

DiffReport_to_dict(rep, top_limit) ==
    [change_count |-> change_count(rep),
     is_clean |-> is_clean(rep),
     by_kind |-> counts_by_kind(rep),
     entries |-> [i \in 1..Len(rep.entries) |-> DiffEntry_to_dict(rep.entries[i])],
     variables |-> DiffReport_variables(rep),
     top_variables |-> DiffReport_top_variables(rep, normalized_limit(top_limit)),
     variables_by_kind |-> variables_by_kind(rep),
     non_empty_kinds |-> non_empty_kinds(rep)]

DiffReport_summary(rep, top_limit) ==
    [change_count |-> change_count(rep),
     is_clean |-> is_clean(rep),
     by_kind |-> counts_by_kind(rep),
     non_empty_kinds |-> non_empty_kinds(rep),
     variables |-> DiffReport_variables(rep),
     top_variables |-> DiffReport_top_variables(rep, normalized_limit(top_limit)),
     variables_by_kind |-> variables_by_kind(rep)]

\* the report after to_dict or summary
DiffReport_projected_memo(rep) ==
    variables_by_kind_memo(
        DiffReport_top_variables_memo(
            DiffReport_variables_memo(counts_by_kind_memo(rep))))

\* ---------------------------------------------------------------------
\* report.py: the dict and the summary of a ValidationReport
\* ---------------------------------------------------------------------

ValidationIssue_to_dict(issue) ==
    [variable |-> issue.variable,
     message |-> issue.message,
     severity |-> issue.severity,
     code |-> issue.code,
     hint |-> issue.hint]

has_errors(rep) == error_count(rep) > 0

has_warnings(rep) == warning_count(rep) > 0

has_info(rep) == info_count(rep) > 0

severity_totals(rep) ==
    [sev \in IssueSeverity |->
        CASE sev = ERROR -> error_count(rep)
          [] sev = WARNING -> warning_count(rep)
          [] sev = INFO -> info_count(rep)]

non_empty_severities(rep) ==
    SelectSeq(<<ERROR, WARNING, INFO>>,
              LAMBDA sev : counter_get(rep._severity_counts, sev) > 0)

ValidationReport_to_dict(rep, top_limit) ==
    [is_success |-> is_success(rep),
     error_count |-> error_count(rep),
     warning_count |-> warning_count(rep),
     issue_count |-> issue_count(rep),
     severity_totals |-> severity_totals(rep),
     codes |-> counts_by_code(rep),
     most_common_codes |-> most_common_codes(rep, normalized_limit(top_limit)),
     non_empty_severities |-> non_empty_severities(rep),
     variables |-> ValidationReport_variables(rep),
     variables_by_severity |-> variables_by_severity(rep),
     top_variables |-> top_variables(rep, normalized_limit(top_limit)),
     issues |-> [i \in 1..Len(rep.issues) |-> ValidationIssue_to_dict(rep.issues[i])]]

ValidationReport_summary(rep, top_limit) ==
    [is_success |-> is_success(rep),
     has_errors |-> has_errors(rep),
     has_warnings |-> has_warnings(rep),
     has_info |-> has_info(rep),
     issue_count |-> issue_count(rep),
     severity_totals |-> severity_totals(rep),
     codes |-> counts_by_code(rep),
     most_common_codes |-> most_common_codes(rep, normalized_limit(top_limit)),
     non_empty_severities |-> non_empty_severities(rep),
     variables |-> ValidationReport_variables(rep),
     variables_by_severity |-> variables_by_severity(rep),
     top_variables |-> top_variables(rep, normalized_limit(top_limit))]

\* the report after to_dict or summary: the queries they call have filled
\* their caches
projected_memo(rep) ==
    top_variables_memo(
        variables_by_severity_memo(
            ValidationReport_variables_memo(
                most_common_codes_memo(counts_by_code_memo(rep)))))

\* specs of one variable A of each type, secret or not, and snapshots that
\* give A and a their values, two of which are no int and no bool
ProjectedEnvSpecs ==
    {<<VariableSpec(NameA, type, TRUE, None, secret)>> :
        type \in {"int", "bool", "string"}, secret \in BOOLEAN}

ProjectedSnapshots ==
    {EnvSnapshot(m, <<>>, <<>>) :
        m \in Maps({NameA, Namea}, {<<"1">>, <<"x">>, <<"y">>})}

InitProject ==
    /\ text = <<>>
    /\ envspec \in ProjectedEnvSpecs
    /\ left \in ProjectedSnapshots
    /\ right = EmptySnapshot
    /\ allow_extra = FALSE
    /\ report = EmptyValidationReport
    /\ diff_report = Returned(EmptyDiffReport)
    /\ data = None
    /\ outcome = None
    /\ pc = "ready"

Projections(rep) ==
    [to_dict |-> ValidationReport_to_dict(rep, None),
     summary |-> ValidationReport_summary(rep, None)]

\* the snapshot is validated and the report projected
Project ==
    \E allow \in BOOLEAN :
        /\ pc = "ready"
        /\ report' = projected_memo(validate(envspec, left, allow))
        /\ allow_extra' = allow
        /\ outcome' = Projections(validate(envspec, left, allow))
        /\ pc' = "projected"
        /\ UNCHANGED <<text, envspec, left, right, diff_report, data>>

SpecProject == InitProject /\ [][Project]_vars

\* the raw values that the type of a variable does not accept
InvalidFor(spec) ==
    {raw \in {<<"1">>, <<"x">>, <<"y">>} : ~normalize(spec.var_type, raw).ok}

\* the issue names the value as its variable or, being the issue of a
\* rejected value, carries a hint or quotes the value at the end of its
\* message
Discloses(issue, raw) ==
    \/ issue.variable = raw
    \/ /\ issue.code = "invalid"
       /\ \/ issue.hint # None
          \/ Len(issue.message) = 2 /\ issue.message[2] = raw

\* C20: in the projections of the report of validate, no issue about a
\* secret variable that the snapshot holds has the raw value of the
\* variable as its variable, in its hint or in its message, and
\* replacing a raw value that the type of the secret variable does not
\* accept by another such value leaves both projections unchanged.
C20_ProjectionsRedacted ==
    pc = "projected" =>
        \A i \in 1..Len(envspec) :
            (envspec[i].secret /\ envspec[i].name \in keys(left)) =>
                /\ \A k \in 1..Len(outcome.to_dict.issues) :
                      ~Discloses(outcome.to_dict.issues[k], left.values[envspec[i].name])
                /\ left.values[envspec[i].name] \in InvalidFor(envspec[i]) =>
                      \A other \in InvalidFor(envspec[i]) :
                          Projections(validate(envspec,
                              [left EXCEPT !.values[envspec[i].name] = other],
                              allow_extra)) = outcome

\* ---------------------------------------------------------------------
\* Reports that are appended to and queried in any order
\* ---------------------------------------------------------------------

MaxCalls == 3

\* issues with two names that the case-folded and the exact order rank
\* differently, a name with two issues, and two malformed lines
ExtraB ==
    ValidationIssue(NameB, <<"variable not declared in spec">>, WARNING, "extra",
                    <<"Add it to envkeep.toml or remove it from the environment.">>)

QueriedIssues ==
    { ValidationIssue(NameA, <<"missing required variable">>, ERROR, "missing",
                      <<"Declare it in the environment or provide a default.">>),
      ValidationIssue(NameA, <<"variable declared multiple times">>, WARNING, "duplicate",
                      <<"Remove duplicate assignments to keep configuration deterministic.">>),
      ValidationIssue(Namea, <<"variable not declared in spec">>, WARNING, "extra",
                      <<"Add it to envkeep.toml or remove it from the environment.">>),
      ExtraB,
      ValidationIssue(line_label(2), <<"line could not be parsed">>, WARNING,
                      "invalid_line", <<"Review the syntax: ", <<"x">>>>) }

QueriedEntries ==
    { DiffEntry(Namea, EXTRA, None, Some(<<"1">>), FALSE),
      DiffEntry(NameB, EXTRA, None, Some(<<"1">>), TRUE),
      DiffEntry(NameB, MISSING, Some(<<"x">>), None, TRUE),
      DiffEntry(NameA, CHANGED, Some(<<"1">>), Some(<<"x">>), FALSE) }

\* limits: none, zero, one, and a negative one that to_dict and summary
\* clamp to zero
Limits == {None, Some(0), Some(1)}

ProjectionLimits == {None, Some(-1)}

\* the queries of a ValidationReport with the arguments they are asked with
IssueQueries ==
    ({"severity_totals", "counts_by_code", "codes", "variables",
      "variables_by_severity", "warning_summary"} \X {None})
    \cup ({"most_common_codes", "top_variables"} \X Limits)
    \cup ({"summary", "to_dict"} \X ProjectionLimits)
    \cup ({"issues_for"} \X {NameA, NameB})
    \cup ({"issues_by_code"} \X {"extra", "missing"})
    \cup ({"issues_by_severity"} \X {ERROR, WARNING})

\* what a query of a ValidationReport returns
Asked(rep, call, arg) ==
    CASE call = "severity_totals" -> severity_totals(rep)
      [] call = "counts_by_code" -> counts_by_code(rep)
      [] call = "codes" -> ValidationReport_codes(rep)
      [] call = "variables" -> ValidationReport_variables(rep)
      [] call = "variables_by_severity" -> variables_by_severity(rep)
      [] call = "warning_summary" -> warning_summary(rep)
      [] call = "most_common_codes" -> most_common_codes(rep, arg)
      [] call = "top_variables" -> top_variables(rep, arg)
      [] call = "summary" -> ValidationReport_summary(rep, arg)
      [] call = "to_dict" -> ValidationReport_to_dict(rep, arg)
      [] call = "issues_for" -> issues_for(rep, arg)
      [] call = "issues_by_code" -> issues_by_code(rep, arg)
      [] call = "issues_by_severity" -> issues_by_severity(rep, arg)

\* the report after the query
Memoized(rep, call, arg) ==
    CASE call \in {"severity_totals", "codes"} -> rep
      [] call = "counts_by_code" -> counts_by_code_memo(rep)
      [] call = "variables" -> ValidationReport_variables_memo(rep)
      [] call = "variables_by_severity" -> variables_by_severity_memo(rep)
      [] call = "warning_summary" -> warning_summary_memo(rep)
      [] call = "most_common_codes" -> most_common_codes_memo(rep)
      [] call = "top_variables" -> top_variables_memo(rep)
      [] call \in {"summary", "to_dict"} -> projected_memo(rep)
      [] call = "issues_for" -> _sorted_variable_bucket_memo(rep, arg)
      [] call = "issues_by_code" -> _sorted_code_bucket_memo(rep, arg)
      [] call = "issues_by_severity" -> issues_by_severity_memo(rep, arg)

EntryQueries ==
    ({"counts_by_kind", "non_empty_kinds", "variables", "variables_by_kind",
      "sorted_entries"} \X {None})
    \cup ({"top_variables"} \X Limits)
    \cup ({"summary", "to_dict"} \X ProjectionLimits)
    \cup ({"entries_by_kind"} \X {MISSING, EXTRA})

AskedOfDiff(rep, call, arg) ==
    CASE call = "counts_by_kind" -> counts_by_kind(rep)
      [] call = "non_empty_kinds" -> non_empty_kinds(rep)
      [] call = "variables" -> DiffReport_variables(rep)
      [] call = "variables_by_kind" -> variables_by_kind(rep)
      [] call = "sorted_entries" -> sorted_entries(rep)
      [] call = "top_variables" -> DiffReport_top_variables(rep, arg)
      [] call = "summary" -> DiffReport_summary(rep, arg)
      [] call = "to_dict" -> DiffReport_to_dict(rep, arg)
      [] call = "entries_by_kind" -> entries_by_kind(rep, arg)

MemoizedOfDiff(rep, call, arg) ==
    CASE call = "non_empty_kinds" -> rep
      [] call = "counts_by_kind" -> counts_by_kind_memo(rep)
      [] call = "variables" -> DiffReport_variables_memo(rep)
      [] call = "variables_by_kind" -> variables_by_kind_memo(rep)
      [] call = "sorted_entries" -> sorted_entries_memo(rep)
      [] call = "top_variables" -> DiffReport_top_variables_memo(rep)
      [] call \in {"summary", "to_dict"} -> DiffReport_projected_memo(rep)
      [] call = "entries_by_kind" -> entries_by_kind_memo(rep, arg)

\* the object a query hands out: the memoized tuple or mapping proxy
\* itself, which cannot be changed, or a list or dict made for the caller
HandsOutCopy(call) == call \notin {"variables", "codes", "counts_by_code",
                                   "counts_by_kind", "non_empty_kinds"}

\* outcome holds the last call, what it returned, the number of calls so
\* far and the issues or entries appended so far; data holds the argument
\* of the call
InitQueries ==
    /\ text = <<>>
    /\ envspec = <<>>
    /\ left = EmptySnapshot
    /\ right = EmptySnapshot
    /\ allow_extra = FALSE
    /\ report = EmptyValidationReport
    /\ diff_report = Returned(EmptyDiffReport)
    /\ data = None
    /\ outcome = [call |-> "", result |-> None, calls |-> 0, appended |-> <<>>]
    /\ pc \in {"issues", "entries"}

AddIssue ==
    \E issue \in QueriedIssues :
        /\ pc = "issues"
        /\ outcome.calls < MaxCalls
        /\ report' = add(report, issue)
        /\ data' = issue
        /\ outcome' = [call |-> "add", result |-> None, calls |-> outcome.calls + 1,
                       appended |-> Append(outcome.appended, issue)]
        /\ UNCHANGED <<text, envspec, left, right, allow_extra, diff_report, pc>>

ExtendIssues ==
    \E issues \in {<<first, ExtraB>> : first \in QueriedIssues} :
        /\ pc = "issues"
        /\ outcome.calls < MaxCalls
        /\ report' = extend(report, issues)
        /\ data' = issues
        /\ outcome' = [call |-> "extend", result |-> None, calls |-> outcome.calls + 1,
                       appended |-> outcome.appended \o issues]
        /\ UNCHANGED <<text, envspec, left, right, allow_extra, diff_report, pc>>

QueryIssues ==
    \E query \in IssueQueries :
        /\ pc = "issues"
        /\ outcome.calls < MaxCalls
        /\ report' = Memoized(report, query[1], query[2])
        /\ data' = query[2]
        /\ outcome' = [call |-> query[1], result |-> Asked(report, query[1], query[2]),
                       calls |-> outcome.calls + 1, appended |-> outcome.appended]
        /\ UNCHANGED <<text, envspec, left, right, allow_extra, diff_report, pc>>

AddEntry ==
    \E entry \in QueriedEntries :
        /\ pc = "entries"
        /\ outcome.calls < MaxCalls
        /\ diff_report' = Returned(diff_add(diff_report.report, entry))
        /\ data' = entry
        /\ outcome' = [call |-> "add", result |-> None, calls |-> outcome.calls + 1,
                       appended |-> Append(outcome.appended, entry)]
        /\ UNCHANGED <<text, envspec, left, right, allow_extra, report, pc>>

QueryEntries ==
    \E query \in EntryQueries :
        /\ pc = "entries"
        /\ outcome.calls < MaxCalls
        /\ diff_report' = Returned(MemoizedOfDiff(diff_report.report, query[1], query[2]))
        /\ data' = query[2]
        /\ outcome' = [call |-> query[1],
                       result |-> AskedOfDiff(diff_report.report, query[1], query[2]),
                       calls |-> outcome.calls + 1, appended |-> outcome.appended]
        /\ UNCHANGED <<text, envspec, left, right, allow_extra, report, pc>>

\* the caller empties the list or dict the last query handed out: the
\* object is the caller's own, so the report keeps what it holds
ClearResult ==
    /\ outcome.call \notin {"", "add", "extend", "cleared"}
    /\ HandsOutCopy(outcome.call)
    /\ outcome.calls < MaxCalls
    /\ outcome' = [outcome EXCEPT !.call = "cleared", !.result = <<>>,
                                  !.calls = @ + 1]
    /\ UNCHANGED <<text, envspec, left, right, allow_extra, report, diff_report, data, pc>>

NextQueries ==
    AddIssue \/ ExtendIssues \/ QueryIssues \/ AddEntry \/ QueryEntries \/ ClearResult

SpecQueries == InitQueries /\ [][NextQueries]_vars

IsQuery(call) == call \notin {"", "add", "extend", "cleared"}

\* C21: the issues and entries of a report are those appended, in order,
\* and whatever was appended, asked or emptied by the caller before, a
\* query returns what it returns on a fresh report built from the issues
\* or entries appended so far.
C21_QueriesMatchFreshReport ==
    /\ pc = "issues" =>
          /\ report.issues = outcome.appended
          /\ IsQuery(outcome.call) =>
                outcome.result = Asked(ValidationReport(outcome.appended), outcome.call, data)
    /\ pc = "entries" =>
          /\ diff_report.report.entries = outcome.appended
          /\ IsQuery(outcome.call) =>
                outcome.result = AskedOfDiff(diff_add_each(EmptyDiffReport, outcome.appended),
                                             outcome.call, data)

\* the issues of code missing were asked for and memoized as none, an
\* extra issue was added, and the extra issues are asked for
C21_Witness ==
    /\ pc = "issues"
    /\ outcome.calls = 3
    /\ outcome.call = "issues_by_code" /\ data = "extra"
    /\ outcome.appended = <<ExtraB>>
    /\ outcome.result = <<ExtraB>>
    /\ "missing" \in DOMAIN report._sorted_code_cache
    /\ report._top_variables_cache = None

\* the pairs of a counter by descending count, then ascending case-folded
\* name, then ascending exact name
RECURSIVE ByCountThenName(_, _)
ByCountThenName(counts, names) ==
    IF names = {} THEN <<>>
    ELSE LET first == CHOOSE x \in names : \A y \in names \ {x} :
                 \/ counts[x] > counts[y]
                 \/ counts[x] = counts[y] /\ sort_key_less(x, y)
         IN  <<<<first, counts[first]>>>> \o ByCountThenName(counts, names \ {first})

FirstPairs(pairs, limit) ==
    IF limit = None THEN pairs
    ELSE SubSeq(pairs, 1, IF limit[1] < Len(pairs) THEN limit[1] ELSE Len(pairs))

\* the number of times a name occurs among the variables of a sequence of
\* issues or entries
Occurrences(items) ==
    [name \in {items[i].variable : i \in 1..Len(items)} |->
        Cardinality({i \in 1..Len(items) : items[i].variable = name})]

\* C22: top_variables(limit), asked of either report with no limit or one
\* that is not negative, returns the first limit pairs of the variables
\* with their counts by descending count, ties by ascending case-folded
\* name and then exact name.
C22_TopVariablesRanked ==
    (outcome.call = "top_variables" /\ (data = None \/ data[1] >= 0)) =>
        outcome.result =
            FirstPairs(ByCountThenName(Occurrences(outcome.appended),
                                       DOMAIN Occurrences(outcome.appended)), data)

(***************************************************************************)
(* validate and diff of one spec over snapshots that hold undeclared keys. *)
(***************************************************************************)

UndeclaredSnapshots ==
    {EnvSnapshot(m, <<>>, <<>>) : m \in Maps(SnapshotKeys, {<<"1">>, <<"x">>})}

InitUndeclared ==
    /\ text = <<>>
    /\ envspec \in DiffEnvSpecs
    /\ left \in UndeclaredSnapshots
    /\ right \in UndeclaredSnapshots
    /\ allow_extra = FALSE
    /\ report = EmptyValidationReport
    /\ diff_report = Returned(EmptyDiffReport)
    /\ data = None
    /\ outcome = None
    /\ pc = "ready"

NextUndeclared == Validate \/ Diff

SpecUndeclared == InitUndeclared /\ [][NextUndeclared]_vars

\* the variables of the issues of a code, in the order of the report
VariablesOfCode(rep, code) ==
    LET HasCode(issue) == issue.code = code
        chosen == SelectSeq(rep.issues, HasCode)
    IN  [i \in 1..Len(chosen) |-> chosen[i].variable]

\* the undeclared variables of the entries of a kind, in the order of the
\* report
UndeclaredOfKind(rep, kind) ==
    LET Chosen(entry) == entry.kind = kind /\ Undeclared(entry.variable)
        chosen == SelectSeq(rep.entries, Chosen)
    IN  [i \in 1..Len(chosen) |-> chosen[i].variable]

\* ascending by case-folded name and, for equal case-folded names, by exact
\* name
AscendingByFoldedThenExact(names) ==
    \A i, j \in 1..Len(names) :
        i < j =>
            \/ str_less(casefold(names[i]), casefold(names[j]))
            \/ casefold(names[i]) = casefold(names[j]) /\ str_less(names[i], names[j])

\* C23: the `extra` issues of validate, and within each kind the `missing`
\* and `extra` entries diff adds for undeclared keys, come in ascending
\* order of the case-folded key and then of the exact key.
C23_UndeclaredKeysOrdered ==
    /\ pc = "validated" =>
          AscendingByFoldedThenExact(VariablesOfCode(report, "extra"))
    /\ pc = "diffed" =>
          /\ AscendingByFoldedThenExact(UndeclaredOfKind(diff_report.report, MISSING))
          /\ AscendingByFoldedThenExact(UndeclaredOfKind(diff_report.report, EXTRA))

\* nothing is declared and the left snapshot holds a and B alone: B precedes
\* a by code point, and a is reported before B
C23_Witness ==
    /\ envspec = <<>>
    /\ keys(left) = {Namea, NameB}
    /\ \/ pc = "validated" /\ ~allow_extra
          /\ VariablesOfCode(report, "extra") = <<Namea, NameB>>
       \/ pc = "diffed" /\ keys(right) = {NameA, Namea, NameB}
          /\ UndeclaredOfKind(diff_report.report, MISSING) = <<Namea, NameB>>
          /\ UndeclaredOfKind(diff_report.report, EXTRA) = <<NameA, Namea, NameB>>

(***************************************************************************)
(* VariableType.normalize applied to a raw text and then to its own        *)
(* result.                                                                 *)
(***************************************************************************)

MaxRawLen == 4

\* a space, a separator of paths, one of lists, a dot, a digit, a letter of
\* `on`, and an upper-case letter
RawChars == {" ", "/", ",", ".", "1", "n", "O"}

RawTexts == SeqsUpTo(RawChars, MaxRawLen)

InitNormalize ==
    /\ text \in RawTexts
    /\ envspec = <<>>
    /\ left = EmptySnapshot
    /\ right = EmptySnapshot
    /\ allow_extra = FALSE
    /\ report = EmptyValidationReport
    /\ diff_report = Returned(EmptyDiffReport)
    /\ data = None
    /\ outcome = None
    /\ pc = "ready"

\* canonical = T.normalize(raw), and T.normalize(canonical) when the first
\* call returned
Normalize ==
    \E var_type \in VariableType :
        /\ data' = var_type
        /\ outcome' = normalize(var_type, text)
        /\ pc' = IF outcome'.ok THEN "canonical" ELSE "rejected"
        /\ UNCHANGED <<text, envspec, left, right, allow_extra, report, diff_report>>

SpecNormalize == InitNormalize /\ [][Normalize]_vars

\* C24: for every type but float, normalize accepts the canonical value it
\* returned for a raw text and returns that same value for it.
C24_NormalizeIdempotent ==
    pc = "canonical" => normalize(data, outcome.value) = Ok(outcome.value)

(***************************************************************************)
(* spec.py: VariableSpec.sample, VariableType.default_example and          *)
(* EnvSpec.generate_example.  A variable here carries its description and  *)
(* its example besides the fields that validation reads.                   *)
(***************************************************************************)

Redacted == <<"<", "r", "e", "d", "a", "c", "t", "e", "d", ">">>

default_example(var_type) ==
    CASE var_type = "string" -> <<"v", "a", "l", "u", "e">>
      [] var_type = "int" -> <<"4", "2">>
      [] var_type = "bool" -> <<"t", "r", "u", "e">>
      [] var_type = "path" -> <<"/", "v", "a", "r", "/", "a", "p", "p", "/", "d", "a", "t", "a">>
      [] var_type = "list" ->
            <<"v", "a", "l", "u", "e", "1", ",", "v", "a", "l", "u", "e", "2">>

sample(spec) ==
    IF spec.default # None THEN spec.default[1]
    ELSE IF spec.example # None THEN spec.example[1]
    ELSE IF spec.secret THEN Redacted
    ELSE default_example(spec.var_type)

\* str.strip() of a text of several lines
RECURSIVE text_lstrip(_)
text_lstrip(s) ==
    IF s # <<>> /\ Head(s) \in Whitespace \cup {"\n"} THEN text_lstrip(Tail(s)) ELSE s

RECURSIVE text_rstrip(_)
text_rstrip(s) ==
    IF s # <<>> /\ s[Len(s)] \in Whitespace \cup {"\n"}
    THEN text_rstrip(SubSeq(s, 1, Len(s) - 1))
    ELSE s

text_strip(s) == text_rstrip(text_lstrip(s))

\* `if comment: lines.append(comment)`; an empty description gives none
comment_lines(spec) ==
    IF spec.description # None /\ spec.description[1] # <<>>
    THEN <<<<"#", " ">> \o spec.description[1]>>
    ELSE <<>>

\* the body of the loop were the sample never replaced
example_lines_unredacted(spec, redact_secrets) ==
    comment_lines(spec) \o <<spec.name \o <<"=">> \o sample(spec), <<>>>>

\* the lines one pass of the loop appends
example_lines(spec, redact_secrets) ==
    comment_lines(spec)
        \o <<spec.name \o <<"=">>
                \o (IF redact_secrets /\ spec.secret THEN Mask ELSE sample(spec)),
             <<>>>>

RECURSIVE example_lines_from(_, _, _)
example_lines_from(variables, idx, redact_secrets) ==
    IF idx > Len(variables) THEN <<>>
    ELSE example_lines(variables[idx], redact_secrets)
            \o example_lines_from(variables, idx + 1, redact_secrets)

generate_example(variables, redact_secrets) ==
    text_strip(join(<<"\n">>, example_lines_from(variables, 1, redact_secrets))) \o <<"\n">>

\* a declaration with a description and an example
Described(spec, description, example) ==
    [field \in DOMAIN spec \cup {"description", "example"} |->
        IF field = "description" THEN description
        ELSE IF field = "example" THEN example
        ELSE spec[field]]

\* declarations of a name: secret or not, with or without a default (one
\* ends with a space), an example, a description (one is empty)
ExampleDeclarations(name) ==
    { Described(VariableSpec(name, var_type, TRUE, default, secret), description, example) :
        var_type \in {"int", "string"},
        default \in {None, Some(<<"1">>), Some(<<"1", " ">>)},
        secret \in BOOLEAN,
        description \in {None, Some(<<>>), Some(<<"d">>)},
        example \in {None, Some(<<"7">>)} }

ExampleEnvSpecs ==
    {<<>>} \cup {<<v>> : v \in ExampleDeclarations(NameA)}
    \cup {<<v, w>> : v \in ExampleDeclarations(NameA), w \in ExampleDeclarations(Namea)}
    \cup {<<w, v>> : v \in ExampleDeclarations(NameA), w \in ExampleDeclarations(Namea)}

InitExample ==
    /\ text = <<>>
    /\ envspec \in ExampleEnvSpecs
    /\ left = EmptySnapshot
    /\ right = EmptySnapshot
    /\ allow_extra = FALSE
    /\ report = EmptyValidationReport
    /\ diff_report = Returned(EmptyDiffReport)
    /\ data = None
    /\ outcome = None
    /\ pc = "ready"

GenerateExample ==
    \E redact_secrets \in BOOLEAN :
        /\ text' = generate_example(envspec, redact_secrets)
        /\ data' = redact_secrets
        /\ pc' = "generated"
        /\ UNCHANGED <<envspec, left, right, allow_extra, report, diff_report, outcome>>

SpecExample == InitExample /\ [][GenerateExample]_vars

\* default, else example, else a mask for a secret and the example of the
\* type for another variable
ChainValues(spec) ==
    IF spec.default # None THEN {spec.default[1]}
    ELSE IF spec.example # None THEN {spec.example[1]}
    ELSE IF spec.secret THEN {Mask, Redacted}
    ELSE {default_example(spec.var_type)}

HasComment(spec) == spec.description # None /\ spec.description[1] # <<>>

\* the entry of a variable with a value: a comment line if it has a
\* description, and NAME=value
EntryText(spec, value) ==
    (IF HasComment(spec) THEN <<"#", " ">> \o spec.description[1] \o <<"\n">> ELSE <<>>)
        \o spec.name \o <<"=">> \o value

\* the entries in declaration order with one blank line between two
EntriesText(entries) == join(<<"\n", "\n">>, entries)

\* C25 as stated: the text is the entries of the variables in declaration
\* order, a blank line between two, each with the value of the chain
\* default, example, mask of a secret or example of the type, whether or not
\* the caller suppresses redaction.
C25_ChainValueEmitted ==
    pc = "generated" =>
        \E values \in [1..Len(envspec) ->
                            UNION {ChainValues(envspec[i]) : i \in 1..Len(envspec)}] :
            /\ \A i \in 1..Len(envspec) : values[i] \in ChainValues(envspec[i])
            /\ text = EntriesText([i \in 1..Len(envspec) |->
                                      EntryText(envspec[i], values[i])]) \o <<"\n">>

\* the value emitted for a variable
EmittedValue(spec, redact_secrets) ==
    IF redact_secrets /\ spec.secret THEN Mask
    ELSE IF spec.default # None THEN spec.default[1]
    ELSE IF spec.example # None THEN spec.example[1]
    ELSE IF spec.secret THEN Redacted
    ELSE default_example(spec.var_type)

\* C25: the text is the entries of the variables in declaration order, a
\* blank line between two, without the whitespace that ends the last value,
\* and one newline; the value of a secret variable is *** unless the caller
\* suppresses redaction, and every other value is the default, else the
\* example, else <redacted> for a secret variable and the example of the
\* type for another.
C25_ExampleText ==
    pc = "generated" =>
        text = text_rstrip(EntriesText([i \in 1..Len(envspec) |->
                    EntryText(envspec[i], EmittedValue(envspec[i], data))])) \o <<"\n">>

\* a secret variable with a default and a description is followed by a
\* secret variable with neither default nor example, redaction is not
\* suppressed, and both values are masked
C25_Witness ==
    /\ pc = "generated" /\ data = TRUE
    /\ Len(envspec) = 2
    /\ envspec[1].secret /\ envspec[1].default = Some(<<"1">>) /\ HasComment(envspec[1])
    /\ envspec[2].secret /\ envspec[2].default = None /\ envspec[2].example = None
    /\ ~HasComment(envspec[2])
    /\ text = <<"#", " ", "d", "\n">> \o envspec[1].name \o <<"=", "*", "*", "*", "\n", "\n">>
                \o envspec[2].name \o <<"=", "*", "*", "*", "\n">>

(***************************************************************************)
(* cli.py: the body that check and _validate_profile share when no report  *)
(* is cached: _fetch_remote_values, the parse of the env file, the merge   *)
(* of local and remote values, and validate.  The futures of the executor  *)
(* complete in any order; `outcome` holds the locals of the run.           *)
(***************************************************************************)

\* a declaration with a source
Sourced(spec, source) ==
    [field \in DOMAIN spec \cup {"source"} |->
        IF field = "source" THEN source ELSE spec[field]]

\* var.source.split(":", 1) unpacked into two names: None when there is no
\* colon (the ValueError that is ignored)
split_source(source) ==
    IF \E i \in 1..Len(source) : source[i] = ":"
    THEN LET i == CHOOSE i \in 1..Len(source) :
                    source[i] = ":" /\ \A j \in 1..(i - 1) : source[j] # ":"
         IN  Some([backend_name |-> SubSeq(source, 1, i - 1),
                   source_uri |-> SubSeq(source, i + 1, Len(source))])
    ELSE None

\* whether the loop over spec.variables files the variable under a backend
declares_source(spec, backends, backend_name) ==
    /\ spec.source # None /\ spec.source[1] # <<>>
    /\ split_source(spec.source[1]) # None
    /\ split_source(spec.source[1])[1].backend_name = backend_name
    /\ backend_name \in backends

\* sources_by_backend: for each backend named by a source and installed,
\* the source of each variable that names it
sources_by_backend(variables, backends) ==
    [backend_name \in {b \in backends : \E i \in 1..Len(variables) :
                            declares_source(variables[i], backends, b)} |->
        [name \in {variables[i].name : i \in {j \in 1..Len(variables) :
                        declares_source(variables[j], backends, backend_name)}} |->
            LET i == CHOOSE i \in 1..Len(variables) :
                        /\ variables[i].name = name
                        /\ declares_source(variables[i], backends, backend_name)
            IN  split_source(variables[i].source[1])[1].source_uri]]

\* the merge were the local values to win
dict_update_keeping_own(d, other) ==
    [k \in DOMAIN d \cup DOMAIN other |-> IF k \in DOMAIN d THEN d[k] ELSE other[k]]

\* dict.update
dict_update(d, other) ==
    [k \in DOMAIN d \cup DOMAIN other |-> IF k \in DOMAIN other THEN other[k] ELSE d[k]]

\* the issue were it labelled with the message of the failure
_handle_backend_failure_unlabelled(backend_name, message, rep) ==
    add(rep, ValidationIssue(message, message, ERROR, "backend_error",
            <<"Check the plugin configuration and network connectivity.">>))

_handle_backend_failure(backend_name, message, rep) ==
    add(rep, ValidationIssue(backend_name, message, ERROR, "backend_error",
            <<"Check the plugin configuration and network connectivity.">>))

\* EnvSnapshot.from_dict(mapping, source=...): no duplicates and no invalid
\* lines are handed over
EnvSnapshot_from_dict(mapping) == EnvSnapshot(mapping, <<>>, <<>>)

\* EnvSnapshot.to_dict
EnvSnapshot_to_dict(snapshot) == snapshot.values

Json == <<"j">>
Vault == <<"v">>

\* the sources a variable can declare: json, vault, a backend that is not
\* installed, and a text without a colon
SourceOf(backend_name) == Some(backend_name \o <<":", "u", ":", "k">>)

PipelineEnvSpecs ==
    { <<Sourced(VariableSpec(NameA, "int", TRUE, None, FALSE), sourceA)>> :
        sourceA \in {None, SourceOf(Json), Some(<<"j">>)} }
    \cup
    { <<Sourced(VariableSpec(NameA, "int", TRUE, None, FALSE), sourceA),
        Sourced(VariableSpec(Namea, "string", FALSE, None, TRUE), sourcea)>> :
        sourceA \in {None, SourceOf(Json), Some(<<"j">>)},
        sourcea \in {None, SourceOf(Json), SourceOf(Vault), SourceOf(<<"o">>), Some(<<>>)} }

\* what a fetch returns or raises
FetchResults(backend_name) ==
    IF backend_name = Json
    THEN { Ok(NameA :> <<"2">>), Ok(NameA :> <<"x">> @@ NameB :> <<"1">>),
           Raise(<<"boom">>) }
    ELSE { Ok(Namea :> <<"1">>), Ok(NameA :> <<"3">>), Raise(<<"down">>) }

InstalledBackends == {{}, {Json}, {Json, Vault}}

PipelineLines ==
    { <<"A", "=", "1">>, <<"A", "=", "x">>, <<"a", "=", "1">>,
      <<"B", "=", "1">>, <<" ", "X", " ">> }

\* env files of up to two lines, and one with a malformed line, a repeated
\* key and an undeclared key
PipelineTexts ==
    SeqsUpTo(PipelineLines, 2)
    \cup { << <<" ", "X", " ">>, <<"A", "=", "1">>, <<"A", "=", "1">>, <<"B", "=", "1">> >> }

InitPipeline ==
    /\ text \in PipelineTexts
    /\ envspec \in PipelineEnvSpecs
    /\ left = EmptySnapshot
    /\ right = EmptySnapshot
    /\ allow_extra = FALSE
    /\ report = EmptyValidationReport
    /\ diff_report = Returned(EmptyDiffReport)
    /\ data \in { [backends |-> backends, fetch |-> fetch] :
                    backends \in InstalledBackends,
                    fetch \in [{Json, Vault} -> FetchResults(Json) \cup FetchResults(Vault)] }
    /\ \A b \in {Json, Vault} : data.fetch[b] \in FetchResults(b)
    /\ outcome = None
    /\ pc = "ready"

\* report = ValidationReport(); load_backends(); one executor.submit of
\* fetch per item of sources_by_backend
SubmitFetches ==
    \E strict_plugins \in BOOLEAN :
        /\ pc = "ready"
        /\ report' = EmptyValidationReport
        /\ outcome' =
              [strict_plugins |-> strict_plugins,
               submitted |-> IF data.backends = {} THEN EmptyMap
                             ELSE sources_by_backend(envspec, data.backends),
               fetch_calls |-> [b \in data.backends |->
                    IF b \in DOMAIN sources_by_backend(envspec, data.backends)
                    THEN 1 ELSE 0],
               pending |-> DOMAIN sources_by_backend(envspec, data.backends),
               fetched_values |-> EmptyMap,
               raised |-> None]
        /\ pc' = "fetching"
        /\ UNCHANGED <<text, envspec, left, right, allow_extra, diff_report, data>>

\* one pass of `for future in as_completed(future_to_backend)`
FutureCompleted ==
    /\ pc = "fetching"
    /\ \E backend_name \in outcome.pending :
        /\ IF data.fetch[backend_name].ok
           THEN /\ outcome' = [outcome EXCEPT
                        !.pending = @ \ {backend_name},
                        !.fetched_values = dict_update(@, data.fetch[backend_name].value)]
                /\ UNCHANGED <<report, pc>>
           ELSE IF outcome.strict_plugins
           THEN /\ outcome' = [outcome EXCEPT
                        !.pending = @ \ {backend_name},
                        !.raised = Some(data.fetch[backend_name].message)]
                /\ pc' = "raised"
                /\ UNCHANGED report
           ELSE /\ outcome' = [outcome EXCEPT !.pending = @ \ {backend_name}]
                /\ report' = _handle_backend_failure(backend_name,
                                data.fetch[backend_name].message, report)
                /\ UNCHANGED pc
        /\ UNCHANGED <<text, envspec, left, right, allow_extra, diff_report, data>>

\* what follows _fetch_remote_values: from_env_file, to_dict, update,
\* from_dict, validate, extend
ValidateMerged ==
    \E allow \in BOOLEAN :
        /\ pc = "fetching" /\ outcome.pending = {}
        /\ left' = from_text(text)
        /\ right' = EnvSnapshot_from_dict(
                        dict_update(EnvSnapshot_to_dict(left'), outcome.fetched_values))
        /\ report' = extend(report, validate(envspec, right', allow).issues)
        /\ allow_extra' = allow
        /\ pc' = "validated"
        /\ UNCHANGED <<text, envspec, diff_report, data, outcome>>

NextPipeline == SubmitFetches \/ FutureCompleted \/ ValidateMerged

SpecPipeline == InitPipeline /\ [][NextPipeline]_vars

\* C26: the snapshot that is validated holds, for every key of the parsed
\* file or of the fetched values, the fetched value if there is one and the
\* value of the file otherwise, and no other key; the report is extended
\* with the issues of validating it.
C26_RemoteOverridesLocal ==
    pc = "validated" =>
        /\ left = from_text(text)
        /\ DOMAIN right.values = DOMAIN left.values \cup DOMAIN outcome.fetched_values
        /\ \A key \in DOMAIN right.values :
              right.values[key] =
                  IF key \in DOMAIN outcome.fetched_values
                  THEN outcome.fetched_values[key]
                  ELSE left.values[key]
        /\ \E n \in 0..Len(report.issues) :
              SubSeq(report.issues, n + 1, Len(report.issues))
                  = validate(envspec, right, allow_extra).issues

\* the file assigns A and a, json returned another value for A and a value
\* for B: A is overridden, a is kept, B is added
C26_Witness ==
    /\ pc = "validated"
    /\ left.values = (NameA :> <<"1">> @@ Namea :> <<"1">>)
    /\ outcome.fetched_values = (NameA :> <<"x">> @@ NameB :> <<"1">>)
    /\ right.values = (NameA :> <<"x">> @@ Namea :> <<"1">> @@ NameB :> <<"1">>)

\* the issues of a code in a report
IssuesOfCode(rep, code) == {i \in 1..Len(rep.issues) : rep.issues[i].code = code}

\* C27: the report of the pipeline holds one `duplicate` warning per
\* repeated key of the env file and one `invalid_line` warning per malformed
\* line of it.
C27_ParseDiagnosticsKept ==
    pc = "validated" =>
        /\ Cardinality(IssuesOfCode(report, "duplicate")) = Len(duplicate_keys(left))
        /\ Cardinality(IssuesOfCode(report, "invalid_line")) = Len(left.invalid_lines)
        /\ \A i \in IssuesOfCode(report, "duplicate") \cup IssuesOfCode(report, "invalid_line") :
              report.issues[i].severity = WARNING

\* the backends that are installed and named by the source of a variable
DeclaredBackends ==
    {b \in data.backends : \E i \in 1..Len(envspec) :
        /\ envspec[i].source # None
        /\ Len(envspec[i].source[1]) > Len(b)
        /\ SubSeq(envspec[i].source[1], 1, Len(b) + 1) = b \o <<":">>}

Failing == {b \in DeclaredBackends : ~data.fetch[b].ok}

BackendErrors(rep, backend_name) ==
    {i \in IssuesOfCode(rep, "backend_error") : rep.issues[i].variable = backend_name}

\* C29: fetch is called once for every installed backend that a source
\* names and for no other; whatever the order in which the fetches
\* complete, without strict_plugins the run ends with exactly one ERROR
\* `backend_error` issue for each backend that failed, labelled with its
\* name, and with a value for every key that a backend that did not fail
\* returned, each fetched value being one that such a backend returned for
\* its key; with strict_plugins the failure of a backend propagates, no
\* issue is recorded for it, and nothing is validated.
C29_FetchOncePerBackend ==
    pc # "ready" =>
        /\ \A b \in data.backends :
              outcome.fetch_calls[b] = IF b \in DeclaredBackends THEN 1 ELSE 0
        /\ DOMAIN outcome.submitted = DeclaredBackends
        /\ (pc = "validated" /\ ~outcome.strict_plugins) =>
              /\ \A b \in Failing :
                    /\ Cardinality(BackendErrors(report, b)) = 1
                    /\ \A i \in BackendErrors(report, b) : report.issues[i].severity = ERROR
              /\ Cardinality(IssuesOfCode(report, "backend_error")) = Cardinality(Failing)
              /\ \A b \in DeclaredBackends \ Failing :
                    DOMAIN data.fetch[b].value \subseteq DOMAIN outcome.fetched_values
              /\ \A key \in DOMAIN outcome.fetched_values :
                    \E b \in DeclaredBackends \ Failing :
                        /\ key \in DOMAIN data.fetch[b].value
                        /\ data.fetch[b].value[key] = outcome.fetched_values[key]
        /\ (pc = "validated" /\ outcome.strict_plugins) => Failing = {}
        /\ pc = "raised" =>
              /\ outcome.strict_plugins
              /\ \E b \in Failing : outcome.raised = Some(data.fetch[b].message)
              /\ IssuesOfCode(report, "backend_error") = {}
        /\ (outcome.strict_plugins /\ Failing # {} /\ outcome.pending \cap Failing = {}) =>
              pc = "raised"

\* json failed and vault did not, without strict_plugins: one issue names
\* json and the value of vault is validated
C29_Witness ==
    /\ pc = "validated" /\ ~outcome.strict_plugins
    /\ DeclaredBackends = {Json, Vault}
    /\ Failing = {Json}
    /\ outcome.fetched_values = (Namea :> <<"1">>)
    /\ right.values[Namea] = <<"1">>
    /\ \E i \in 1..Len(report.issues) :
          /\ report.issues[i].code = "backend_error"
          /\ report.issues[i].variable = Json
          /\ report.issues[i].message = <<"boom">>

(***************************************************************************)
(* cache.py: Cache over a directory that holds spec.hash and one file per  *)
(* profile hash.  A hash stands for the content it is taken of; `data`     *)
(* holds the two files, the directory, the clock and the ttl.  Besides the *)
(* timestamp and the report, a cache file remembers here the spec content  *)
(* it was written under, which the code does not record.                   *)
(***************************************************************************)

MaxClock == 2

SpecContents == {"S1", "S2"}
ProfileContents == {"P1", "P2"}

\* _hash_file(path) and the version suffix of the spec hash
_hash_file(content) == content

\* ValidationReport.from_dict(data["report"]), which report.py does not
\* define: the report of the stored issues
ValidationReport_from_dict(payload) == ValidationReport(payload.issues)

CachedReports ==
    { EmptyValidationReport,
      ValidationReport(<<ValidationIssue(NameA, <<"missing required variable">>,
                                         ERROR, "missing", None)>>) }

\* get_report: None, the report read from the cache file, or the
\* AttributeError of the call that reads it
get_report(cache, from_dict_defined) ==
    IF ~cache.root_exists THEN Returned(None)
    ELSE IF cache.spec_hash # Some(_hash_file(cache.spec_file)) THEN Returned(None)
    ELSE IF _hash_file(cache.profile_file) \notin DOMAIN cache.files THEN Returned(None)
    ELSE IF cache.ttl > 0
            /\ cache.now - cache.files[_hash_file(cache.profile_file)].timestamp > cache.ttl
         THEN Returned(None)
    ELSE IF from_dict_defined
         THEN Returned(Some(ValidationReport_from_dict(
                    cache.files[_hash_file(cache.profile_file)].report)))
    ELSE Raised(<<"AttributeError">>)

\* set_report
set_report(cache, rep) ==
    [cache EXCEPT
        !.root_exists = TRUE,
        !.spec_hash = Some(_hash_file(cache.spec_file)),
        !.files = dict_set(@, _hash_file(cache.profile_file),
                     [timestamp |-> cache.now,
                      report |-> ValidationReport_to_dict(rep, None),
                      written_under |-> cache.spec_file])]

InitCache ==
    /\ text = <<>>
    /\ envspec = <<>>
    /\ left = EmptySnapshot
    /\ right = EmptySnapshot
    /\ allow_extra = FALSE
    /\ report = EmptyValidationReport
    /\ diff_report = Returned(EmptyDiffReport)
    /\ data \in { [spec_file |-> "S1", profile_file |-> "P1", root_exists |-> FALSE,
                   spec_hash |-> None, files |-> EmptyMap, now |-> 0, ttl |-> ttl] :
                  ttl \in {0, 1} }
    /\ outcome = Returned(None)
    /\ pc = "ready"

GetReport ==
    \E from_dict_defined \in BOOLEAN :
        /\ outcome' = get_report(data, from_dict_defined)
        /\ pc' = "got"
        /\ UNCHANGED <<text, envspec, left, right, allow_extra, report, diff_report, data>>

SetReport ==
    \E rep \in CachedReports :
        /\ data' = set_report(data, rep)
        /\ report' = rep
        /\ pc' = "set"
        /\ UNCHANGED <<text, envspec, left, right, allow_extra, diff_report, outcome>>

WriteSpecFile ==
    \E content \in SpecContents \ {data.spec_file} :
        /\ data' = [data EXCEPT !.spec_file = content]
        /\ pc' = "changed"
        /\ UNCHANGED <<text, envspec, left, right, allow_extra, report, diff_report, outcome>>

WriteProfileFile ==
    \E content \in ProfileContents \ {data.profile_file} :
        /\ data' = [data EXCEPT !.profile_file = content]
        /\ pc' = "changed"
        /\ UNCHANGED <<text, envspec, left, right, allow_extra, report, diff_report, outcome>>

Tick ==
    /\ data.now < MaxClock
    /\ data' = [data EXCEPT !.now = @ + 1]
    /\ pc' = "changed"
    /\ UNCHANGED <<text, envspec, left, right, allow_extra, report, diff_report, outcome>>

NextCache == GetReport \/ SetReport \/ WriteSpecFile \/ WriteProfileFile \/ Tick

SpecCache == InitCache /\ [][NextCache]_vars

\* a report was stored for the content the two files have now and, with a
\* ttl, not longer ago than the ttl
StoredForCurrent(cache) ==
    /\ cache.profile_file \in DOMAIN cache.files
    /\ cache.files[cache.profile_file].written_under = cache.spec_file
    /\ cache.ttl > 0 => cache.now - cache.files[cache.profile_file].timestamp <= cache.ttl

\* C28: get_report returns a report only when one was stored for the
\* content the spec file and the profile file have now (within the ttl if
\* there is one), and then the report that was stored; otherwise it returns
\* None.
C28_OnlyStoredForSameContent ==
    pc = "got" =>
        /\ (~outcome.raised /\ outcome.report # None) =>
              /\ StoredForCurrent(data)
              /\ ValidationReport_to_dict(outcome.report[1], None)
                    = data.files[data.profile_file].report
        /\ ~StoredForCurrent(data) => outcome = Returned(None)

(***************************************************************************)
(* cli.py load_spec and spec.py load_imports, one call at a time: `outcome`*)
(* holds the frames of the nested load_imports calls, each with the spec   *)
(* it was called on and the import it has reached.  The interpreter raises *)
(* RecursionError when the calls are nested MaxDepth deep; no set of       *)
(* acyclic files of the pool nests that deep.                              *)
(***************************************************************************)

MaxDepth == 4

\* spec files main, b and c that may import one another and themselves
ImportingFiles ==
    {[path \in {"main", "b", "c"} |->
         CASE path = "main" -> SpecData(<<VariableItem(NameA, "int", None)>>, <<>>, main)
           [] path = "b" -> SpecData(<<VariableItem(NameB, "int", None)>>, <<>>, b)
           [] path = "c" -> SpecData(<<VariableItem(NameC, "int", None)>>, <<>>, c)] :
        main \in {<<>>, <<"b">>, <<"main">>, <<"b", "c">>, <<"b", "missing">>},
        b \in {<<>>, <<"c">>, <<"main">>, <<"b">>},
        c \in {<<>>, <<"b">>}}

Frame(path, spec) == [path |-> path, spec |-> spec, idx |-> 1]

InitLoad ==
    /\ text = <<>>
    /\ envspec = <<>>
    /\ left = EmptySnapshot
    /\ right = EmptySnapshot
    /\ allow_extra = FALSE
    /\ report = EmptyValidationReport
    /\ diff_report = Returned(EmptyDiffReport)
    /\ data \in ImportingFiles
    /\ outcome = [frames |-> <<>>, loads |-> 0, spec |-> None]
    /\ pc = "ready"

\* load_spec: the spec is read and load_imports is called on it
LoadSpec ==
    /\ pc = "ready"
    /\ outcome' = [outcome EXCEPT
            !.frames = <<Frame("main", EnvSpec_from_file(data, "main").value)>>,
            !.loads = 1]
    /\ pc' = "loading"
    /\ UNCHANGED <<text, envspec, left, right, allow_extra, report, diff_report, data>>

\* the frame that runs, and the import its loop has reached
Running == outcome.frames[Len(outcome.frames)]

HasNextImport == Running.idx <= Len(Running.spec.imports)

\* imported_spec = EnvSpec.from_file(import_path);
\* imported_spec.load_imports(import_path.parent)
EnterImport ==
    /\ pc = "loading" /\ HasNextImport
    /\ Len(outcome.frames) < MaxDepth
    /\ IF EnvSpec_from_file(data, Running.spec.imports[Running.idx]).ok
       THEN /\ outcome' = [outcome EXCEPT
                    !.frames = Append(@, Frame(Running.spec.imports[Running.idx],
                        EnvSpec_from_file(data, Running.spec.imports[Running.idx]).value)),
                    !.loads = @ + 1]
            /\ pc' = "loading"
       ELSE /\ outcome' = [outcome EXCEPT !.loads = @ + 1]
            /\ pc' = "file_not_found"
    /\ UNCHANGED <<text, envspec, left, right, allow_extra, report, diff_report, data>>

\* the call that the interpreter refuses
StackExhausted ==
    /\ pc = "loading" /\ HasNextImport
    /\ Len(outcome.frames) = MaxDepth
    /\ pc' = "recursion_error"
    /\ UNCHANGED <<text, envspec, left, right, allow_extra, report, diff_report, data,
                   outcome>>

\* what a load_imports call leaves of its spec: the indexes are rebuilt
\* when it had imports
Finished(frame) ==
    IF frame.spec.imports = <<>> THEN frame.spec ELSE _rebuild_caches(frame.spec)

\* load_imports returns; its caller merges the imported spec and goes on
\* to its next import
ReturnImport ==
    /\ pc = "loading" /\ ~HasNextImport
    /\ IF Len(outcome.frames) = 1
       THEN /\ outcome' = [outcome EXCEPT !.frames = <<>>, !.spec = Some(Finished(Running))]
            /\ pc' = "loaded"
       ELSE /\ outcome' = [outcome EXCEPT !.frames =
                    [SubSeq(@, 1, Len(@) - 1) EXCEPT ![Len(outcome.frames) - 1] =
                        [@ EXCEPT !.spec = _merge_spec(@, Finished(Running)),
                                  !.idx = @ + 1]]]
            /\ pc' = "loading"
    /\ UNCHANGED <<text, envspec, left, right, allow_extra, report, diff_report, data>>

NextLoad == LoadSpec \/ EnterImport \/ StackExhausted \/ ReturnImport

SpecLoad == InitLoad /\ [][NextLoad]_vars

\* the files whose load is under way, outermost first
BeingLoaded == [i \in 1..Len(outcome.frames) |-> outcome.frames[i].path]

\* C30: no spec file is loaded while its own load is under way, so that
\* the loads are nested no deeper than there are files and the number of
\* loads has a bound that the files determine, and load_imports never ends
\* by exhausting the interpreter's stack.
C30_LoadImportsTerminates ==
    /\ pc # "recursion_error"
    /\ \A i, j \in 1..Len(outcome.frames) : BeingLoaded[i] = BeingLoaded[j] => i = j

====
